---- MODULE Spec2Model ----
(***************************************************************************)
(* A model of the ARM virtual GIC distributor of xen/arch/arm/vgic.c:      *)
(* the register ranks, the pending-interrupt descriptors, the trapped      *)
(* distributor read/write handlers, the enable/disable transitions, the    *)
(* SGI dispatcher and vgic_vcpu_inject_irq.                                *)
(*                                                                         *)
(* A 32-bit register is the set of its set bit positions (a subset of      *)
(* 0..31): | is \cup, & is \cap, ~ is the complement in 0..31, and shifts  *)
(* move the positions.  That keeps every register bit-exact without        *)
(* arithmetic beyond the checker's integers.                               *)
(***************************************************************************)
EXTENDS Integers, Sequences, FiniteSets, TLC

----------------------------------------------------------------------------
(* 32-bit words *)

Bits == 0..31
Zero == {}
Not(w) == Bits \ w
Shr(w, k) == {i - k : i \in {j \in w : j >= k}}
Shl(w, k) == {i + k : i \in {j \in w : j + k <= 31}}
ByteBits(b) == {i \in 0..7 : (b \div (2^i)) % 2 = 1}
Word4(b3, b2, b1, b0) ==
    Shl(ByteBits(b3), 24) \cup Shl(ByteBits(b2), 16) \cup Shl(ByteBits(b1), 8) \cup ByteBits(b0)
BitsOf(n) == {i \in 0..30 : (n \div (2^i)) % 2 = 1}
ByteVal(w) ==
    LET f[i \in 0..8] == IF i = 8 THEN 0 ELSE (IF i \in w THEN 2^i ELSE 0) + f[i + 1]
    IN f[0]
ByteMask(byte) == Shl(0..7, 8 * byte)

----------------------------------------------------------------------------
(* The data abort's access size (hsr_dabt.size) *)

DABT_BYTE == 0
DABT_HALF_WORD == 1
DABT_WORD == 2

(* Distributor register offsets, in bytes from the distributor base *)
GICD_CTLR == \h000
GICD_TYPER == \h004
GICD_IIDR == \h008
GICD_IGROUPR == \h080
GICD_IGROUPRN == \h0FC
GICD_ISENABLER == \h100
GICD_ISENABLERN == \h17C
GICD_ICENABLER == \h180
GICD_ICENABLERN == \h1FC
GICD_ISPENDR == \h200
GICD_ISPENDRN == \h27C
GICD_ICPENDR == \h280
GICD_ICPENDRN == \h2FC
GICD_ISACTIVER == \h300
GICD_ISACTIVERN == \h37C
GICD_ICACTIVER == \h380
GICD_ICACTIVERN == \h3FC
GICD_IPRIORITYR == \h400
GICD_IPRIORITYRN == \h7F8
GICD_ITARGETSR == \h800
GICD_ITARGETSRN == \hBF8
GICD_ICFGR == \hC00
GICD_ICFGRN == \hCFC
GICD_NSACR == \hE00
GICD_NSACRN == \hEFC
GICD_SGIR == \hF00
GICD_CPENDSGIR == \hF10
GICD_CPENDSGIRN == \hF1C
GICD_SPENDSGIR == \hF20
GICD_SPENDSGIRN == \hF2C
GICD_ICPIDR2 == \hFE8

GICD_CTL_ENABLE == {0}
GICD_TYPE_LINES == 0..4
GICD_TYPE_CPUS == 5..7
GICD_SGI_TARGET_LIST_MASK == {24, 25}
GICD_SGI_TARGET_LIST == {}
GICD_SGI_TARGET_OTHERS == {24}
GICD_SGI_TARGET_SELF == {25}
GICD_SGI_TARGET_MASK == 16..23
GICD_SGI_TARGET_SHIFT == 16
GICD_SGI_INTID_MASK == 0..3

(* Bits of pending_irq.status *)
GIC_IRQ_GUEST_QUEUED == "QUEUED"
GIC_IRQ_GUEST_ACTIVE == "ACTIVE"
GIC_IRQ_GUEST_VISIBLE == "VISIBLE"
GIC_IRQ_GUEST_ENABLED == "ENABLED"

----------------------------------------------------------------------------
(* The domain: its vCPUs (vCPU i runs on processor i; the domain was built  *)
(* for max_vcpus and d->vcpu[2] is NULL), the line that                    *)
(* carries event-channel upcalls, the shared lines backed by a physical    *)
(* interrupt, and the line counts a domain may be built with (a count      *)
(* that fills its ranks, and one that leaves the last rank partly used).   *)

Vcpus == {0, 1}
max_vcpus == 3
Procs == Vcpus
NoProc == -1
DOM == -1
evtchn_irq == 31
NrLinesChoices == {0, 32}
PartialRankLines == {8}
Backed == {32}

VARIABLES
    nr_lines,       \* d->arch.vgic.nr_lines, the number of SPIs
    ctlr,           \* d->arch.vgic.ctlr
    rank,           \* the private rank of each vCPU and the domain's shared ranks
    pending,        \* the pending_irq descriptors
    inflight_irqs,  \* v->arch.vgic.inflight_irqs, head to tail
    lr_pending,     \* v->arch.vgic.lr_pending, kept by the physical interface
    pause_down,     \* the vCPUs with _VPF_down set
    is_running,     \* the vCPUs with v->is_running
    upcall_pending, \* the vCPUs with evtchn_upcall_pending latched
    hw_enabled,     \* the backing physical interrupts that are enabled
    vlock,          \* v->arch.vgic.lock: the processor holding it, or NoProc
    rlock,          \* rank->lock of each rank: the processor holding it, or NoProc
    dlock,          \* desc->lock of each backing physical interrupt, likewise
    ctx,            \* what each processor is executing
    calls,          \* the collaborator calls made by the latest step
    crashed         \* domain_crash_synchronous() was called

vars == <<nr_lines, ctlr, rank, pending, inflight_irqs, lr_pending, pause_down,
          is_running, upcall_pending, hw_enabled, vlock, rlock, dlock, ctx, calls, crashed>>

DOMAIN_NR_RANKS == (nr_lines + 31) \div 32

Priv(v) == <<"private", v>>
Shared(k) == <<"shared", k>>
NULL == <<"null", 0>>

RankIds == {Priv(v) : v \in Vcpus} \cup {Shared(k) : k \in 0..(DOMAIN_NR_RANKS - 1)}
DescIds == (Vcpus \X (0..31)) \cup ({DOM} \X (32..(31 + nr_lines)))

ZeroRank ==
    [ienable |-> Zero, ipend |-> Zero, iactive |-> Zero, pendsgi |-> Zero,
     ipriority |-> [i \in 0..7 |-> Zero],
     itargets |-> [i \in 0..7 |-> Zero],
     icfg |-> [i \in 0..1 |-> Zero]]

ZeroDesc == [status |-> {}, priority |-> 0, irq |-> 0, inflight |-> FALSE, lr_queue |-> FALSE]

IdleCtx ==
    [pc |-> "idle", op |-> "none", v |-> 0, irq |-> 0, mask |-> {}, n |-> 0, ret |-> 1,
     gicd_reg |-> 0, size |-> 0, r |-> {}]

(* int domain_vgic_init(struct domain *d): the domain's part of Init *)
domain_vgic_init(lines) ==
    /\ ctlr = Zero
    /\ nr_lines = lines

(* int vcpu_vgic_init(struct vcpu *v): the private rank, with the targets  *)
(* of words 0..7 seeded to this vCPU in each byte.                         *)
vcpu_vgic_init(v) ==
    [ZeroRank EXCEPT !.itargets =
        [i \in 0..7 |-> {v + 0, v + 8, v + 16, v + 24}]]

(* The state after domain_vgic_init and vcpu_vgic_init of each vCPU, for a  *)
(* line count out of choices                                               *)
InitLines(choices) ==
    /\ \E lines \in choices : domain_vgic_init(lines)
    /\ rank = [id \in RankIds |->
                 IF id[1] = "private" THEN vcpu_vgic_init(id[2]) ELSE ZeroRank]
    /\ pending = [d \in DescIds |-> ZeroDesc]
    /\ inflight_irqs = [v \in Vcpus |-> <<>>]
    /\ lr_pending = [v \in Vcpus |-> {}]
    /\ pause_down = {}
    /\ is_running = Vcpus
    /\ upcall_pending = {}
    /\ hw_enabled = {}
    /\ vlock = [v \in Vcpus |-> NoProc]
    /\ rlock = [id \in RankIds |-> NoProc]
    /\ dlock = [irq \in Backed |-> NoProc]
    /\ ctx = [p \in Procs |-> IdleCtx]
    /\ calls = {}
    /\ crashed = FALSE

Init == InitLines(NrLinesChoices)

----------------------------------------------------------------------------
(* Rank and descriptor lookup *)

REG_RANK_NR(b, n) ==
    CASE b = 8 -> n \div 8
      [] b = 4 -> n \div 4
      [] b = 2 -> n \div 2
      [] b = 1 -> n

REG_RANK_INDEX(b, n, s) == (n \div (2^s)) % b

vgic_rank_offset(v, b, n, s) ==
    LET r == REG_RANK_NR(b, n \div (2^s))
    IN IF r = 0 THEN Priv(v)
       ELSE IF r <= DOMAIN_NR_RANKS THEN Shared(r - 1)
       ELSE NULL

vgic_rank_irq(v, irq) == vgic_rank_offset(v, 8, irq, DABT_WORD)

irq_to_pending(v, irq) == IF irq < 32 THEN <<v, irq>> ELSE <<DOM, irq>>

(* The byte of val that offset addresses, sign-extended for a signed load *)
vgic_byte_read(val, sign, offset) ==
    LET byte == offset % 4
        b == Shr(val, 8 * byte) \cap (0..7)
    IN IF sign = 1 /\ 7 \in b THEN b \cup (8..31) ELSE b

(* reg with the byte that offset addresses replaced by the low byte of var *)
vgic_byte_write(reg, var, offset) ==
    LET byte == offset % 4
    IN (reg \ ByteMask(byte)) \cup Shl(var \cap (0..7), 8 * byte)

list_empty(d) == ~pending[d].inflight
is_vcpu_online(v) == v \notin pause_down
current(p) == p

----------------------------------------------------------------------------
(* The physical interface (gic.c), as far as the distributor drives it.    *)
(* Each takes and returns the record st of the state it may touch:         *)
(* st.pending, st.inflight, st.lr and st.calls.                            *)

St(p) == [pending |-> pending, inflight |-> inflight_irqs, lr |-> lr_pending,
          calls |-> {}]

Without(list, d) == SelectSeq(list, LAMBDA e : e # d)

gic_raise_guest_irq(st, v, irq, priority) ==
    [st EXCEPT !.lr[v] = @ \cup {irq},
               !.pending[irq_to_pending(v, irq)].lr_queue = TRUE,
               !.calls = @ \cup {<<"gic_raise_guest_irq", v, irq, priority>>}]

gic_raise_inflight_irq(st, v, irq) ==
    [st EXCEPT !.calls = @ \cup {<<"gic_raise_inflight_irq", v, irq>>}]

gic_remove_from_queues(st, v, irq) ==
    LET d == irq_to_pending(v, irq)
    IN [st EXCEPT !.lr = [w \in Vcpus |->
                             IF irq_to_pending(w, irq) = d THEN st.lr[w] \ {irq}
                             ELSE st.lr[w]],
                  !.pending[d].lr_queue = FALSE,
                  !.pending[d].inflight = FALSE,
                  !.inflight = [w \in Vcpus |-> Without(st.inflight[w], d)],
                  !.calls = @ \cup {<<"gic_remove_from_queues", v, irq>>}]

gic_clear_pending_irqs(st, v) ==
    [st EXCEPT !.lr[v] = {},
               !.pending = [d \in DOMAIN st.pending |->
                   IF d[2] \in st.lr[v] /\ d = irq_to_pending(v, d[2])
                   THEN [st.pending[d] EXCEPT !.lr_queue = FALSE]
                   ELSE st.pending[d]]]

vcpu_unblock(st, v) == [st EXCEPT !.calls = @ \cup {<<"vcpu_unblock", v>>}]

smp_send_event_check_mask(st, v) ==
    [st EXCEPT !.calls = @ \cup {<<"smp_send_event_check_mask", v>>}]

(* Writes st back to the variables, for processor p *)
Commit(p, st) ==
    /\ pending' = st.pending
    /\ inflight_irqs' = st.inflight
    /\ lr_pending' = st.lr
    /\ calls' = st.calls

----------------------------------------------------------------------------
(* void vgic_vcpu_inject_irq(struct vcpu *v, unsigned int irq)             *)

Min(S) == CHOOSE x \in S : \A y \in S : x <= y

(* InflightInsert with the comparison iter->priority >= priority: a new    *)
(* entry would overtake the entries of its own priority.                   *)
InflightInsert_ge(list, pend, d, priority) ==
    LET after == {i \in 1..Len(list) : pend[list[i]].priority >= priority}
    IN IF after = {} THEN Append(list, d)
       ELSE SubSeq(list, 1, Min(after) - 1) \o <<d>> \o SubSeq(list, Min(after), Len(list))

(* list_for_each_entry ... list_add_tail: d goes before the first entry    *)
(* whose priority is greater, or to the tail when there is none.           *)
InflightInsert(list, pend, d, priority) ==
    LET after == {i \in 1..Len(list) : pend[list[i]].priority > priority}
    IN IF after = {} THEN Append(list, d)
       ELSE SubSeq(list, 1, Min(after) - 1) \o <<d>> \o SubSeq(list, Min(after), Len(list))

(* The operation that called vgic_vcpu_inject_irq goes on *)
AfterInject(c) ==
    CASE c.op = "enable" -> [c EXCEPT !.pc = "en_desc"]
      [] c.op = "sgi" -> [c EXCEPT !.pc = "sgi_loop"]
      [] OTHER -> IdleCtx

(* The line is inflight already, with the re-latch left out *)
inject_inflight_silent(st, v, irq) ==
    [st EXCEPT !.pending[irq_to_pending(v, irq)].status = @ \cup {GIC_IRQ_GUEST_QUEUED}]

(* The line is inflight already, with the priority taken anew from the rank *)
inject_inflight_resnapshot(st, v, irq) ==
    gic_raise_inflight_irq(
        [st EXCEPT !.pending[irq_to_pending(v, irq)].status = @ \cup {GIC_IRQ_GUEST_QUEUED},
                   !.pending[irq_to_pending(v, irq)].priority =
                       ByteVal(vgic_byte_read(
                           rank[vgic_rank_irq(v, irq)].ipriority[REG_RANK_INDEX(8, irq, DABT_WORD)],
                           0, irq % 4))],
        v, irq)

(* The line is inflight already: set_bit(GIC_IRQ_GUEST_QUEUED) and         *)
(* gic_raise_inflight_irq(v, irq)                                          *)
inject_inflight(st, v, irq) ==
    gic_raise_inflight_irq(
        [st EXCEPT !.pending[irq_to_pending(v, irq)].status = @ \cup {GIC_IRQ_GUEST_QUEUED}],
        v, irq)

(* spin_lock_irqsave(&v->arch.vgic.lock, flags) *)
inject_lock(p) ==
    /\ ctx[p].pc = "inj_lock"
    /\ vlock[ctx[p].v] = NoProc
    /\ vlock' = [vlock EXCEPT ![ctx[p].v] = p]
    /\ ctx' = [ctx EXCEPT ![p].pc = "inj_check"]
    /\ calls' = {}
    /\ UNCHANGED <<dlock, rlock, nr_lines, ctlr, rank, pending, inflight_irqs, lr_pending, pause_down,
                   is_running, upcall_pending, hw_enabled, crashed>>

(* The two early exits: the line is inflight already, or the vCPU is down *)
inject_check(p) ==
    LET v == ctx[p].v
        irq == ctx[p].irq
        n == irq_to_pending(v, irq)
    IN /\ ctx[p].pc = "inj_check"
       /\ IF ~list_empty(n)
          THEN /\ Commit(p, inject_inflight(St(p), v, irq))
               /\ vlock' = [vlock EXCEPT ![v] = NoProc]
               /\ ctx' = [ctx EXCEPT ![p].pc = "inj_notify"]
          ELSE IF v \in pause_down
          THEN /\ vlock' = [vlock EXCEPT ![v] = NoProc]
               /\ ctx' = [ctx EXCEPT ![p] = AfterInject(ctx[p])]
               /\ calls' = {}
               /\ UNCHANGED <<pending, inflight_irqs, lr_pending>>
          ELSE /\ ctx' = [ctx EXCEPT ![p].pc = "inj_insert"]
               /\ calls' = {}
               /\ UNCHANGED <<vlock, pending, inflight_irqs, lr_pending>>
       /\ UNCHANGED <<dlock, rlock, nr_lines, ctlr, rank, pause_down, is_running, upcall_pending,
                      hw_enabled, crashed>>

(* The priority snapshot, the raise and the ordered insertion *)
inject_insert(p) ==
    LET v == ctx[p].v
        irq == ctx[p].irq
        n == irq_to_pending(v, irq)
        rk == vgic_rank_irq(v, irq)
        priority == ByteVal(vgic_byte_read(
                        rank[rk].ipriority[REG_RANK_INDEX(8, irq, DABT_WORD)], 0, irq % 4))
        s1 == [St(p) EXCEPT !.pending[n].irq = irq,
                            !.pending[n].status = @ \cup {GIC_IRQ_GUEST_QUEUED},
                            !.pending[n].priority = priority]
        s2 == IF GIC_IRQ_GUEST_ENABLED \in s1.pending[n].status
              THEN gic_raise_guest_irq(s1, v, irq, priority)
              ELSE s1
        s3 == [s2 EXCEPT !.inflight[v] = InflightInsert(@, s2.pending, n, priority),
                         !.pending[n].inflight = TRUE]
    IN /\ ctx[p].pc = "inj_insert"
       /\ Commit(p, s3)
       /\ vlock' = [vlock EXCEPT ![v] = NoProc]
       /\ ctx' = [ctx EXCEPT ![p].pc = "inj_notify"]
       /\ UNCHANGED <<dlock, rlock, nr_lines, ctlr, rank, pause_down, is_running, upcall_pending,
                      hw_enabled, crashed>>

(* After the unlock: wake the vCPU, and kick it when it runs elsewhere *)
inject_notify(p) ==
    LET v == ctx[p].v
        running == v \in is_running
        s1 == vcpu_unblock(St(p), v)
        s2 == IF running /\ v # current(p) THEN smp_send_event_check_mask(s1, v) ELSE s1
    IN /\ ctx[p].pc = "inj_notify"
       /\ Commit(p, s2)
       /\ ctx' = [ctx EXCEPT ![p] = AfterInject(ctx[p])]
       /\ UNCHANGED <<dlock, rlock, nr_lines, ctlr, rank, pause_down, is_running, upcall_pending,
                      hw_enabled, vlock, crashed>>

(* A caller outside the distributor (a physical interrupt, a timer) on     *)
(* processor p injects line irq into vCPU v.                               *)
vgic_vcpu_inject_irq(p, v, irq) ==
    /\ ctx[p].pc = "idle"
    /\ irq < 32 + nr_lines
    /\ ctx' = [ctx EXCEPT ![p] = [IdleCtx EXCEPT !.pc = "inj_lock", !.op = "inject",
                                                 !.v = v, !.irq = irq]]
    /\ calls' = {}
    /\ UNCHANGED <<dlock, rlock, nr_lines, ctlr, rank, pending, inflight_irqs, lr_pending, pause_down,
                   is_running, upcall_pending, hw_enabled, vlock, crashed>>

(* void vgic_clear_pending_irqs(struct vcpu *v) *)
vgic_clear_pending_irqs(p, v) ==
    LET s1 == [St(p) EXCEPT
                 !.pending = [d \in DOMAIN pending |->
                     IF \E i \in 1..Len(inflight_irqs[v]) : inflight_irqs[v][i] = d
                     THEN [pending[d] EXCEPT !.inflight = FALSE]
                     ELSE pending[d]],
                 !.inflight[v] = <<>>]
    IN /\ ctx[p].pc = "idle"
       /\ vlock[v] = NoProc
       /\ Commit(p, gic_clear_pending_irqs(s1, v))
       /\ UNCHANGED <<dlock, rlock, nr_lines, ctlr, rank, pause_down, is_running, upcall_pending,
                      hw_enabled, vlock, ctx, crashed>>

----------------------------------------------------------------------------
(* static int vgic_distr_mmio_read(struct vcpu *v, mmio_info_t *info)      *)
(* The result is [res, val]: res is "handled" (return 1), "unhandled"      *)
(* (return 0) or "bad_width" (domain_crash_synchronous), val is *r.        *)

In(x, lo, hi) == lo <= x /\ x <= hi

RHandled(val) == [res |-> "handled", val |-> val]
RUnhandled == [res |-> "unhandled", val |-> Zero]
RBadWidth == [res |-> "bad_width", val |-> Zero]
read_as_zero(size) == IF size # DABT_WORD THEN RBadWidth ELSE RHandled(Zero)

(* A word-only register of a rank: ienable, iactive *)
read_rank_word(v, gicd_reg, base, size, field) ==
    LET rk == vgic_rank_offset(v, 1, gicd_reg - base, DABT_WORD)
    IN IF size # DABT_WORD THEN RBadWidth
       ELSE IF rk = NULL THEN read_as_zero(size)
       ELSE RHandled(rank[rk][field])

(* A byte-addressable bitmap of a rank: ipend, pendsgi *)
read_rank_bytes(v, gicd_reg, base, size, sign, field) ==
    LET rk == vgic_rank_offset(v, 1, gicd_reg - base, DABT_WORD)
    IN IF size # DABT_BYTE /\ size # DABT_WORD THEN RBadWidth
       ELSE IF rk = NULL THEN read_as_zero(size)
       ELSE RHandled(vgic_byte_read(rank[rk][field], sign, gicd_reg))

(* The 8-bits-per-line arrays: itargets, ipriority *)
read_rank_array8(v, gicd_reg, base, size, sign, field) ==
    LET rk == vgic_rank_offset(v, 8, gicd_reg - base, DABT_WORD)
        word == rank[rk][field][REG_RANK_INDEX(8, gicd_reg - base, DABT_WORD)]
    IN IF size # DABT_BYTE /\ size # DABT_WORD THEN RBadWidth
       ELSE IF rk = NULL THEN read_as_zero(size)
       ELSE IF size = DABT_BYTE THEN RHandled(vgic_byte_read(word, sign, gicd_reg))
       ELSE RHandled(word)

read_icfgr(v, gicd_reg, size) ==
    LET rk == vgic_rank_offset(v, 2, gicd_reg - GICD_ICFGR, DABT_WORD)
    IN IF size # DABT_WORD THEN RBadWidth
       ELSE IF rk = NULL THEN read_as_zero(size)
       ELSE RHandled(rank[rk].icfg[REG_RANK_INDEX(2, gicd_reg - GICD_ICFGR, DABT_WORD)])

read_typer ==
    (Shl(BitsOf(max_vcpus), 5) \cap GICD_TYPE_CPUS)
        \cup (BitsOf(nr_lines \div 32) \cap GICD_TYPE_LINES)

vgic_distr_mmio_read(v, gicd_reg, size, sign) ==
    CASE gicd_reg = GICD_CTLR ->
            IF size # DABT_WORD THEN RBadWidth ELSE RHandled(ctlr)
      [] gicd_reg = GICD_TYPER ->
            IF size # DABT_WORD THEN RBadWidth ELSE RHandled(read_typer)
      [] gicd_reg = GICD_IIDR ->
            IF size # DABT_WORD THEN RBadWidth ELSE RHandled(Word4(0, 0, \h04, \h3B))
      [] In(gicd_reg, \h020, \h03C) -> read_as_zero(size)
      [] In(gicd_reg, GICD_IGROUPR, GICD_IGROUPRN) -> read_as_zero(size)
      [] In(gicd_reg, GICD_ISENABLER, GICD_ISENABLERN) ->
            read_rank_word(v, gicd_reg, GICD_ISENABLER, size, "ienable")
      [] In(gicd_reg, GICD_ICENABLER, GICD_ICENABLERN) ->
            read_rank_word(v, gicd_reg, GICD_ICENABLER, size, "ienable")
      [] In(gicd_reg, GICD_ISPENDR, GICD_ISPENDRN) ->
            read_rank_bytes(v, gicd_reg, GICD_ISPENDR, size, sign, "ipend")
      [] In(gicd_reg, GICD_ICPENDR, GICD_ICPENDRN) ->
            read_rank_bytes(v, gicd_reg, GICD_ICPENDR, size, sign, "ipend")
      [] In(gicd_reg, GICD_ISACTIVER, GICD_ISACTIVERN) ->
            read_rank_word(v, gicd_reg, GICD_ISACTIVER, size, "iactive")
      [] In(gicd_reg, GICD_ICACTIVER, GICD_ICACTIVERN) ->
            read_rank_word(v, gicd_reg, GICD_ICACTIVER, size, "iactive")
      [] In(gicd_reg, GICD_ITARGETSR, GICD_ITARGETSRN) ->
            read_rank_array8(v, gicd_reg, GICD_ITARGETSR, size, sign, "itargets")
      [] In(gicd_reg, GICD_IPRIORITYR, GICD_IPRIORITYRN) ->
            read_rank_array8(v, gicd_reg, GICD_IPRIORITYR, size, sign, "ipriority")
      [] In(gicd_reg, GICD_ICFGR, GICD_ICFGRN) -> read_icfgr(v, gicd_reg, size)
      [] In(gicd_reg, GICD_NSACR, GICD_NSACRN) -> read_as_zero(size)
      [] gicd_reg = GICD_SGIR ->
            IF size # DABT_WORD THEN RBadWidth
            ELSE RHandled(Word4(\hDE, \hAD, \hBE, \hEF))
      [] In(gicd_reg, GICD_CPENDSGIR, GICD_CPENDSGIRN) ->
            read_rank_bytes(v, gicd_reg, GICD_CPENDSGIR, size, sign, "pendsgi")
      [] In(gicd_reg, GICD_SPENDSGIR, GICD_SPENDSGIRN) ->
            read_rank_bytes(v, gicd_reg, GICD_SPENDSGIR, size, sign, "pendsgi")
      [] In(gicd_reg, \hFD0, \hFE4) -> read_as_zero(size)
      [] gicd_reg = GICD_ICPIDR2 ->
            IF size # DABT_WORD THEN RBadWidth ELSE RUnhandled
      [] In(gicd_reg, \hFEC, \hFFC) -> read_as_zero(size)
      [] In(gicd_reg, \h00C, \h01C) \/ In(gicd_reg, \h040, \h07C)
           \/ gicd_reg = \h7FC \/ gicd_reg = \hBFC
           \/ In(gicd_reg, \hF04, \hF0C) \/ In(gicd_reg, \hF30, \hFCC) ->
            read_as_zero(size)
      [] OTHER -> RUnhandled

----------------------------------------------------------------------------
(* static int vgic_distr_mmio_write(struct vcpu *v, mmio_info_t *info)     *)
(* The result is [res, ctlr, rank, mask, n]: the controller and rank state *)
(* the register part of the handler leaves, and in res how it goes on:     *)
(* "handled" (return 1), "unhandled" (return 0), "bad_width", or the call  *)
(* it ends with ("enable", "disable" with the bits mask of word n; "sgi"). *)

WHandled == [res |-> "handled", ctlr |-> ctlr, rank |-> rank, mask |-> {}, n |-> 0]
WUnhandled == [WHandled EXCEPT !.res = "unhandled"]
WBadWidth == [WHandled EXCEPT !.res = "bad_width"]
write_ignore(size) == IF size # DABT_WORD THEN WBadWidth ELSE WHandled

(* write_ctlr without the width check *)
write_ctlr_any_width(size, r) ==
    [WHandled EXCEPT !.ctlr = r \cap GICD_CTL_ENABLE]

(* The control register storing every bit written *)
write_ctlr_unmasked(size, r) ==
    IF size # DABT_WORD THEN WBadWidth
    ELSE [WHandled EXCEPT !.ctlr = r]

(* GICD_CTLR: ignore all but the enable bit *)
write_ctlr(size, r) ==
    IF size # DABT_WORD THEN WBadWidth
    ELSE [WHandled EXCEPT !.ctlr = r \cap GICD_CTL_ENABLE]

(* The set-enable registers with the enable transition run for every bit  *)
(* written                                                                 *)
write_isenabler_all(v, gicd_reg, size, r) ==
    LET rk == vgic_rank_offset(v, 1, gicd_reg - GICD_ISENABLER, DABT_WORD)
    IN IF size # DABT_WORD THEN WBadWidth
       ELSE IF rk = NULL THEN write_ignore(size)
       ELSE [WHandled EXCEPT !.res = "enable",
                             !.rank[rk].ienable = @ \cup r,
                             !.mask = r,
                             !.n = (gicd_reg - GICD_ISENABLER) \div 4]

write_isenabler(v, gicd_reg, size, r) ==
    LET rk == vgic_rank_offset(v, 1, gicd_reg - GICD_ISENABLER, DABT_WORD)
        tr == rank[rk].ienable
    IN IF size # DABT_WORD THEN WBadWidth
       ELSE IF rk = NULL THEN write_ignore(size)
       ELSE [WHandled EXCEPT !.res = "enable",
                             !.rank[rk].ienable = @ \cup r,
                             !.mask = r \cap Not(tr),
                             !.n = (gicd_reg - GICD_ISENABLER) \div 4]

write_icenabler(v, gicd_reg, size, r) ==
    LET rk == vgic_rank_offset(v, 1, gicd_reg - GICD_ICENABLER, DABT_WORD)
        tr == rank[rk].ienable
    IN IF size # DABT_WORD THEN WBadWidth
       ELSE IF rk = NULL THEN write_ignore(size)
       ELSE [WHandled EXCEPT !.res = "disable",
                             !.rank[rk].ienable = @ \cap Not(r),
                             !.mask = r \cap tr,
                             !.n = (gicd_reg - GICD_ICENABLER) \div 4]

(* The pending registers with the write taken as done *)
write_pend_handled(size) ==
    IF size \notin {DABT_BYTE, DABT_WORD} THEN WBadWidth ELSE WHandled

write_pend_unhandled(size) ==
    IF size # DABT_BYTE /\ size # DABT_WORD THEN WBadWidth ELSE WUnhandled

(* The active registers with the written bits set instead of cleared *)
write_iactiver_set(v, gicd_reg, base, size, r) ==
    LET rk == vgic_rank_offset(v, 1, gicd_reg - base, DABT_WORD)
    IN IF size # DABT_WORD THEN WBadWidth
       ELSE IF rk = NULL THEN write_ignore(size)
       ELSE [WHandled EXCEPT !.rank[rk].iactive = @ \cup r]

(* ISACTIVER and ICACTIVER alike: rank->iactive &= ~*r *)
write_iactiver(v, gicd_reg, base, size, r) ==
    LET rk == vgic_rank_offset(v, 1, gicd_reg - base, DABT_WORD)
    IN IF size # DABT_WORD THEN WBadWidth
       ELSE IF rk = NULL THEN write_ignore(size)
       ELSE [WHandled EXCEPT !.rank[rk].iactive = @ \cap Not(r)]

write_itargetsr(v, gicd_reg, size, r) ==
    LET rk == vgic_rank_offset(v, 8, gicd_reg - GICD_ITARGETSR, DABT_WORD)
        tr == REG_RANK_INDEX(8, gicd_reg - GICD_ITARGETSR, DABT_WORD)
    IN IF size # DABT_BYTE /\ size # DABT_WORD THEN WBadWidth
       ELSE IF rk = NULL THEN write_ignore(size)
       ELSE IF size = DABT_WORD THEN [WHandled EXCEPT !.rank[rk].itargets[tr] = r]
       ELSE [WHandled EXCEPT !.rank[rk].itargets[tr] = vgic_byte_write(@, r, gicd_reg)]

(* write_ipriorityr with a byte write storing the whole source register *)
write_ipriorityr_whole(v, gicd_reg, size, r) ==
    LET rk == vgic_rank_offset(v, 8, gicd_reg - GICD_IPRIORITYR, DABT_WORD)
        tr == REG_RANK_INDEX(8, gicd_reg - GICD_IPRIORITYR, DABT_WORD)
    IN IF size # DABT_BYTE /\ size # DABT_WORD THEN WBadWidth
       ELSE IF rk = NULL THEN write_ignore(size)
       ELSE [WHandled EXCEPT !.rank[rk].ipriority[tr] = r]

write_ipriorityr(v, gicd_reg, size, r) ==
    LET rk == vgic_rank_offset(v, 8, gicd_reg - GICD_IPRIORITYR, DABT_WORD)
        tr == REG_RANK_INDEX(8, gicd_reg - GICD_IPRIORITYR, DABT_WORD)
    IN IF size # DABT_BYTE /\ size # DABT_WORD THEN WBadWidth
       ELSE IF rk = NULL THEN write_ignore(size)
       ELSE IF size = DABT_WORD THEN [WHandled EXCEPT !.rank[rk].ipriority[tr] = r]
       ELSE [WHandled EXCEPT !.rank[rk].ipriority[tr] = vgic_byte_write(@, r, gicd_reg)]

write_icfgr(v, gicd_reg, size, r) ==
    LET rk == vgic_rank_offset(v, 2, gicd_reg - GICD_ICFGR, DABT_WORD)
    IN IF size # DABT_WORD THEN WBadWidth
       ELSE IF rk = NULL THEN write_ignore(size)
       ELSE [WHandled EXCEPT
               !.rank[rk].icfg[REG_RANK_INDEX(2, gicd_reg - GICD_ICFGR, DABT_WORD)] = r]

write_sgir(size) ==
    IF size # 2 THEN WBadWidth ELSE [WHandled EXCEPT !.res = "sgi"]

vgic_distr_mmio_write(v, gicd_reg, size, r) ==
    CASE gicd_reg = GICD_CTLR -> write_ctlr(size, r)
      [] gicd_reg = GICD_TYPER \/ gicd_reg = GICD_IIDR -> write_ignore(size)
      [] In(gicd_reg, \h020, \h03C) -> write_ignore(size)
      [] In(gicd_reg, GICD_IGROUPR, GICD_IGROUPRN) -> write_ignore(size)
      [] In(gicd_reg, GICD_ISENABLER, GICD_ISENABLERN) ->
            write_isenabler(v, gicd_reg, size, r)
      [] In(gicd_reg, GICD_ICENABLER, GICD_ICENABLERN) ->
            write_icenabler(v, gicd_reg, size, r)
      [] In(gicd_reg, GICD_ISPENDR, GICD_ISPENDRN) -> write_pend_unhandled(size)
      [] In(gicd_reg, GICD_ICPENDR, GICD_ICPENDRN) -> write_pend_unhandled(size)
      [] In(gicd_reg, GICD_ISACTIVER, GICD_ISACTIVERN) ->
            write_iactiver(v, gicd_reg, GICD_ISACTIVER, size, r)
      [] In(gicd_reg, GICD_ICACTIVER, GICD_ICACTIVERN) ->
            write_iactiver(v, gicd_reg, GICD_ICACTIVER, size, r)
      [] In(gicd_reg, GICD_ITARGETSR, GICD_ITARGETSR + 7) -> write_ignore(size)
      [] In(gicd_reg, GICD_ITARGETSR + 8, GICD_ITARGETSRN) ->
            write_itargetsr(v, gicd_reg, size, r)
      [] In(gicd_reg, GICD_IPRIORITYR, GICD_IPRIORITYRN) ->
            write_ipriorityr(v, gicd_reg, size, r)
      [] gicd_reg = GICD_ICFGR -> write_ignore(size)
      [] gicd_reg = GICD_ICFGR + 1 -> write_ignore(size)
      [] In(gicd_reg, GICD_ICFGR + 2, GICD_ICFGRN) -> write_icfgr(v, gicd_reg, size, r)
      [] In(gicd_reg, GICD_NSACR, GICD_NSACRN) -> write_ignore(size)
      [] gicd_reg = GICD_SGIR -> write_sgir(size)
      [] In(gicd_reg, GICD_CPENDSGIR, GICD_CPENDSGIRN) -> write_pend_unhandled(size)
      [] In(gicd_reg, GICD_SPENDSGIR, GICD_SPENDSGIRN) -> write_pend_unhandled(size)
      [] In(gicd_reg, \hFD0, \hFE4) -> write_ignore(size)
      [] gicd_reg = GICD_ICPIDR2 -> write_ignore(size)
      [] In(gicd_reg, \hFEC, \hFFC) -> write_ignore(size)
      [] In(gicd_reg, \h00C, \h01C) \/ In(gicd_reg, \h040, \h07C)
           \/ gicd_reg = \h7FC \/ gicd_reg = \hBFC
           \/ In(gicd_reg, \hF04, \hF0C) \/ In(gicd_reg, \hF30, \hFCC) ->
            write_ignore(size)
      [] OTHER -> WUnhandled

----------------------------------------------------------------------------
(* The trapped accesses of a running vCPU (processor p runs vCPU p)        *)

Done(c, ret) == [IdleCtx EXCEPT !.ret = ret]

(* A handler taken in one step runs when the rank locks are free *)
RanksFree == \A id \in RankIds : rlock[id] = NoProc

CanTrap(p) ==
    /\ ctx[p].pc = "idle"
    /\ ~crashed
    /\ p \in is_running
    /\ p \notin pause_down

MmioRead(p, gicd_reg, size, sign) ==
    LET o == vgic_distr_mmio_read(p, gicd_reg, size, sign)
    IN /\ CanTrap(p)
       /\ RanksFree
       /\ crashed' = (o.res = "bad_width")
       /\ ctx' = [ctx EXCEPT ![p] =
              [IdleCtx EXCEPT !.ret = IF o.res = "handled" THEN 1 ELSE 0]]
       /\ calls' = CASE o.res = "bad_width" ->
                          {<<"printk", "vGICD: bad read width", size, gicd_reg>>,
                           <<"domain_crash_synchronous">>}
                     [] o.res = "unhandled" -> {<<"printk", "vGICD: unhandled read">>}
                     [] OTHER -> {}
       /\ UNCHANGED <<dlock, rlock, nr_lines, ctlr, rank, pending, inflight_irqs, lr_pending, pause_down,
                      is_running, upcall_pending, hw_enabled, vlock>>

(* The decoding with the default case taken for a target list *)
vgic_to_sgi_mask_lenient(p, sgir) ==
    LET filter == sgir \cap GICD_SGI_TARGET_LIST_MASK
    IN CASE filter = GICD_SGI_TARGET_OTHERS ->
                [known |-> TRUE,
                 mask |-> {i \in 0..(max_vcpus - 1) :
                             i # current(p) /\ i \in Vcpus /\ is_vcpu_online(i)}]
         [] filter = GICD_SGI_TARGET_SELF -> [known |-> TRUE, mask |-> {current(p)}]
         [] OTHER ->
                [known |-> TRUE,
                 mask |-> Shr(sgir \cap GICD_SGI_TARGET_MASK, GICD_SGI_TARGET_SHIFT)]

(* The decoding with the sender among the targets of "all but self" *)
vgic_to_sgi_mask_all(p, sgir) ==
    LET filter == sgir \cap GICD_SGI_TARGET_LIST_MASK
    IN CASE filter = GICD_SGI_TARGET_LIST ->
                [known |-> TRUE,
                 mask |-> Shr(sgir \cap GICD_SGI_TARGET_MASK, GICD_SGI_TARGET_SHIFT)]
         [] filter = GICD_SGI_TARGET_OTHERS ->
                [known |-> TRUE,
                 mask |-> {i \in 0..(max_vcpus - 1) : i \in Vcpus /\ is_vcpu_online(i)}]
         [] filter = GICD_SGI_TARGET_SELF -> [known |-> TRUE, mask |-> {current(p)}]
         [] OTHER -> [known |-> FALSE, mask |-> {}]

(* static int vgic_to_sgi(struct vcpu *v, register_t sgir): the decoding.  *)
(* [known, mask]: whether the filter is one of the three, and the target   *)
(* vCPU ids.                                                               *)
vgic_to_sgi_mask(p, sgir) ==
    LET filter == sgir \cap GICD_SGI_TARGET_LIST_MASK
    IN CASE filter = GICD_SGI_TARGET_LIST ->
                [known |-> TRUE,
                 mask |-> Shr(sgir \cap GICD_SGI_TARGET_MASK, GICD_SGI_TARGET_SHIFT)]
         [] filter = GICD_SGI_TARGET_OTHERS ->
                [known |-> TRUE,
                 mask |-> {i \in 0..(max_vcpus - 1) :
                             i # current(p) /\ i \in Vcpus /\ is_vcpu_online(i)}]
         [] filter = GICD_SGI_TARGET_SELF -> [known |-> TRUE, mask |-> {current(p)}]
         [] OTHER -> [known |-> FALSE, mask |-> {}]

MmioWrite(p, gicd_reg, size, r) ==
    LET o == vgic_distr_mmio_write(p, gicd_reg, size, r)
        c == [IdleCtx EXCEPT !.v = p]
        m == vgic_to_sgi_mask(p, r)
    IN /\ CanTrap(p)
       /\ RanksFree
       /\ crashed' = (o.res = "bad_width")
       /\ calls' = CASE o.res = "bad_width" ->
                          {<<"printk", "vGICD: bad write width", size, gicd_reg>>,
                           <<"domain_crash_synchronous">>}
                     [] o.res = "unhandled" -> {<<"printk", "vGICD: unhandled write">>}
                     [] o.res = "sgi" /\ ~m.known ->
                          {<<"gdprintk", "vGICD: unhandled GICD_SGIR write">>}
                     [] OTHER -> {}
       /\ ctx' = [ctx EXCEPT ![p] =
              CASE o.res = "handled" -> [c EXCEPT !.ret = 1]
                [] o.res \in {"unhandled", "bad_width"} -> [c EXCEPT !.ret = 0]
                [] o.res = "enable" ->
                     [c EXCEPT !.pc = "en_loop", !.op = "enable", !.mask = o.mask, !.n = o.n]
                [] o.res = "disable" ->
                     [c EXCEPT !.pc = "dis_loop", !.op = "disable", !.mask = o.mask,
                               !.n = o.n]
                [] o.res = "sgi" ->
                     IF ~m.known THEN [c EXCEPT !.ret = 0]
                     ELSE [c EXCEPT !.pc = "sgi_loop", !.op = "sgi", !.mask = m.mask,
                                    !.irq = ByteVal(r \cap GICD_SGI_INTID_MASK),
                                    !.r = r]]
       /\ ctlr' = o.ctlr
       /\ rank' = o.rank
       /\ UNCHANGED <<dlock, rlock, nr_lines, pending, inflight_irqs, lr_pending, pause_down,
                      is_running, upcall_pending, hw_enabled, vlock>>

(* What vgic_vcpu_inject_irq(NULL, irq) can do: the loads through the NULL  *)
(* vcpu fault in the hypervisor, or they read what is mapped there and the *)
(* loop goes on.                                                           *)
NullVcpuOutcomes == {"null_deref", "sgi_loop"}

(* vgic_to_sgi: for_each_set_bit( vcpuid, &vcpu_mask, d->max_vcpus ).  The  *)
(* test before the continue lets a vcpuid with d->vcpu[vcpuid] == NULL     *)
(* through to vgic_vcpu_inject_irq.                                        *)
sgi_loop(p) ==
    LET c == ctx[p]
        left == c.mask \cap (0..(max_vcpus - 1))
        vcpuid == Min(left)
    IN /\ c.pc = "sgi_loop"
       /\ \E outcome \in NullVcpuOutcomes :
            ctx' = [ctx EXCEPT ![p] =
              IF left = {} THEN Done(c, 1)
              ELSE IF vcpuid \in Vcpus /\ ~is_vcpu_online(vcpuid)
              THEN [c EXCEPT !.mask = left \ {vcpuid}]
              ELSE IF vcpuid \notin Vcpus
              THEN [c EXCEPT !.mask = left \ {vcpuid}, !.pc = outcome]
              ELSE [c EXCEPT !.mask = left \ {vcpuid}, !.pc = "inj_lock", !.v = vcpuid]]
       /\ calls' = IF left # {} /\ vcpuid \in Vcpus /\ ~is_vcpu_online(vcpuid)
                   THEN {<<"gdprintk", "vGICD: GICD_SGIR write, wrong CPUTargetList">>}
                   ELSE {}
       /\ UNCHANGED <<dlock, rlock, nr_lines, ctlr, rank, pending, inflight_irqs, lr_pending, pause_down,
                      is_running, upcall_pending, hw_enabled, vlock, crashed>>

(* What set_bit and the loads through a pending_irq pointer beyond the     *)
(* end of d->arch.vgic.pending_irqs can do: they hit whatever the heap     *)
(* holds there, or fault, and the transition is lost; or they hit memory   *)
(* nothing depends on and the loop goes on to the next bit.                *)
OutOfTableOutcomes == {"out_of_table", "next_bit"}

(* The head of the loop body without the forced injection *)
enable_loop_unforced(p) ==
    LET c == ctx[p]
        i == Min(c.mask)
        irq == i + 32 * c.n
        d == irq_to_pending(c.v, irq)
    IN /\ c.pc = "en_loop"
       /\ IF c.mask = {}
          THEN /\ ctx' = [ctx EXCEPT ![p] = Done(c, 1)]
               /\ UNCHANGED pending
          ELSE /\ pending' = [pending EXCEPT ![d].status = @ \cup {GIC_IRQ_GUEST_ENABLED}]
               /\ ctx' = [ctx EXCEPT ![p] = [c EXCEPT !.pc = "en_raise", !.irq = irq]]
       /\ calls' = {}
       /\ UNCHANGED <<dlock, rlock, nr_lines, ctlr, rank, inflight_irqs, lr_pending, pause_down,
                      is_running, upcall_pending, hw_enabled, vlock, crashed>>

(* static void vgic_enable_irqs(struct vcpu *v, uint32_t r, int n): the    *)
(* head of the loop body, up to the choice between a forced injection and  *)
(* the raise of a line that is inflight already.                           *)
enable_loop(p) ==
    LET c == ctx[p]
        i == Min(c.mask)
        irq == i + 32 * c.n
        d == irq_to_pending(c.v, irq)
    IN /\ c.pc = "en_loop"
       /\ IF c.mask = {}
          THEN /\ ctx' = [ctx EXCEPT ![p] = Done(c, 1)]
               /\ UNCHANGED pending
          ELSE IF d \notin DescIds
          THEN /\ \E outcome \in OutOfTableOutcomes :
                     ctx' = [ctx EXCEPT ![p] =
                         [c EXCEPT !.pc = IF outcome = "next_bit" THEN "en_loop" ELSE outcome,
                                   !.irq = irq, !.mask = @ \ {i}]]
               /\ UNCHANGED pending
          ELSE /\ pending' = [pending EXCEPT ![d].status = @ \cup {GIC_IRQ_GUEST_ENABLED}]
               /\ ctx' = [ctx EXCEPT ![p] =
                      IF irq = evtchn_irq /\ current(p) \in upcall_pending /\ list_empty(d)
                      THEN [c EXCEPT !.pc = "inj_lock", !.irq = irq]
                      ELSE [c EXCEPT !.pc = "en_raise", !.irq = irq]]
       /\ calls' = {}
       /\ UNCHANGED <<dlock, rlock, nr_lines, ctlr, rank, inflight_irqs, lr_pending, pause_down,
                      is_running, upcall_pending, hw_enabled, vlock, crashed>>

(* The else branch without the test of GIC_IRQ_GUEST_VISIBLE *)
enable_raise_visible(p) ==
    LET c == ctx[p]
        d == irq_to_pending(c.v, c.irq)
    IN /\ c.pc = "en_raise"
       /\ vlock[c.v] = NoProc
       /\ Commit(p, IF ~list_empty(d)
                    THEN gic_raise_guest_irq(St(p), c.v, c.irq, pending[d].priority)
                    ELSE St(p))
       /\ ctx' = [ctx EXCEPT ![p].pc = "en_desc"]
       /\ UNCHANGED <<dlock, rlock, nr_lines, ctlr, rank, pause_down, is_running, upcall_pending,
                      hw_enabled, vlock, crashed>>

(* vgic_enable_irqs: the else branch, under v->arch.vgic.lock *)
enable_raise(p) ==
    LET c == ctx[p]
        d == irq_to_pending(c.v, c.irq)
    IN /\ c.pc = "en_raise"
       /\ vlock[c.v] = NoProc
       /\ Commit(p, IF ~list_empty(d) /\ GIC_IRQ_GUEST_VISIBLE \notin pending[d].status
                    THEN gic_raise_guest_irq(St(p), c.v, c.irq, pending[d].priority)
                    ELSE St(p))
       /\ ctx' = [ctx EXCEPT ![p].pc = "en_desc"]
       /\ UNCHANGED <<dlock, rlock, nr_lines, ctlr, rank, pause_down, is_running, upcall_pending,
                      hw_enabled, vlock, crashed>>

(* vgic_enable_irqs: if ( p->desc != NULL ), spin_lock_irqsave of the      *)
(* descriptor's lock; without a descriptor, i++.                           *)
enable_desc(p) ==
    LET c == ctx[p]
    IN /\ c.pc = "en_desc"
       /\ IF c.irq \in Backed
          THEN /\ dlock[c.irq] = NoProc
               /\ dlock' = [dlock EXCEPT ![c.irq] = p]
               /\ ctx' = [ctx EXCEPT ![p].pc = "en_desc_locked"]
          ELSE /\ dlock' = dlock
               /\ ctx' = [ctx EXCEPT ![p] = [c EXCEPT !.pc = "en_loop", !.v = p,
                                                      !.mask = @ \ {c.irq - 32 * c.n}]]
       /\ calls' = {}
       /\ UNCHANGED <<rlock, nr_lines, ctlr, rank, pending, inflight_irqs, lr_pending,
                      pause_down, is_running, upcall_pending, hw_enabled, vlock, crashed>>

(* p->desc->handler->enable(p->desc); spin_unlock_irqrestore; i++ *)
enable_desc_locked(p) ==
    LET c == ctx[p]
    IN /\ c.pc = "en_desc_locked"
       /\ hw_enabled' = hw_enabled \cup {c.irq}
       /\ dlock' = [dlock EXCEPT ![c.irq] = NoProc]
       /\ ctx' = [ctx EXCEPT ![p] = [c EXCEPT !.pc = "en_loop", !.v = p,
                                              !.mask = @ \ {c.irq - 32 * c.n}]]
       /\ calls' = {}
       /\ UNCHANGED <<rlock, nr_lines, ctlr, rank, pending, inflight_irqs, lr_pending,
                      pause_down, is_running, upcall_pending, vlock, crashed>>

(* static void vgic_disable_irqs(struct vcpu *v, uint32_t r, int n): the   *)
(* head of the loop body, clear_bit(GIC_IRQ_GUEST_ENABLED, &p->status).    *)
disable_loop(p) ==
    LET c == ctx[p]
        i == Min(c.mask)
        irq == i + 32 * c.n
        d == irq_to_pending(c.v, irq)
    IN /\ c.pc = "dis_loop"
       /\ IF c.mask = {}
          THEN /\ ctx' = [ctx EXCEPT ![p] = Done(c, 1)]
               /\ UNCHANGED pending
          ELSE IF d \notin DescIds
          THEN /\ \E outcome \in OutOfTableOutcomes :
                     ctx' = [ctx EXCEPT ![p] =
                         [c EXCEPT !.pc = IF outcome = "next_bit" THEN "dis_loop" ELSE outcome,
                                   !.irq = irq, !.mask = @ \ {i}]]
               /\ UNCHANGED pending
          ELSE /\ pending' = [pending EXCEPT ![d].status = @ \ {GIC_IRQ_GUEST_ENABLED}]
               /\ ctx' = [ctx EXCEPT ![p] = [c EXCEPT !.pc = "dis_remove", !.irq = irq]]
       /\ calls' = {}
       /\ UNCHANGED <<dlock, rlock, nr_lines, ctlr, rank, inflight_irqs, lr_pending, pause_down,
                      is_running, upcall_pending, hw_enabled, vlock, crashed>>

(* The turn without the call of gic_remove_from_queues *)
disable_remove_keep_queued(p) ==
    LET c == ctx[p]
    IN /\ c.pc = "dis_remove"
       /\ vlock[c.v] = NoProc
       /\ Commit(p, St(p))
       /\ ctx' = [ctx EXCEPT ![p].pc = "dis_desc"]
       /\ UNCHANGED <<dlock, rlock, nr_lines, ctlr, rank, pause_down, is_running,
                      upcall_pending, hw_enabled, vlock, crashed>>

(* vgic_disable_irqs: gic_remove_from_queues(v, irq), which takes and      *)
(* releases v->arch.vgic.lock.                                             *)
disable_remove(p) ==
    LET c == ctx[p]
    IN /\ c.pc = "dis_remove"
       /\ vlock[c.v] = NoProc
       /\ Commit(p, gic_remove_from_queues(St(p), c.v, c.irq))
       /\ ctx' = [ctx EXCEPT ![p].pc = "dis_desc"]
       /\ UNCHANGED <<dlock, rlock, nr_lines, ctlr, rank, pause_down, is_running,
                      upcall_pending, hw_enabled, vlock, crashed>>

(* vgic_disable_irqs: if ( p->desc != NULL ), spin_lock_irqsave of the     *)
(* descriptor's lock; without a descriptor, i++.                           *)
disable_desc(p) ==
    LET c == ctx[p]
    IN /\ c.pc = "dis_desc"
       /\ IF c.irq \in Backed
          THEN /\ dlock[c.irq] = NoProc
               /\ dlock' = [dlock EXCEPT ![c.irq] = p]
               /\ ctx' = [ctx EXCEPT ![p].pc = "dis_desc_locked"]
          ELSE /\ dlock' = dlock
               /\ ctx' = [ctx EXCEPT ![p] = [c EXCEPT !.pc = "dis_loop",
                                                      !.mask = @ \ {c.irq - 32 * c.n}]]
       /\ calls' = {}
       /\ UNCHANGED <<rlock, nr_lines, ctlr, rank, pending, inflight_irqs, lr_pending,
                      pause_down, is_running, upcall_pending, hw_enabled, vlock, crashed>>

(* p->desc->handler->disable(p->desc); spin_unlock_irqrestore; i++ *)
disable_desc_locked(p) ==
    LET c == ctx[p]
    IN /\ c.pc = "dis_desc_locked"
       /\ hw_enabled' = hw_enabled \ {c.irq}
       /\ dlock' = [dlock EXCEPT ![c.irq] = NoProc]
       /\ ctx' = [ctx EXCEPT ![p] = [c EXCEPT !.pc = "dis_loop",
                                              !.mask = @ \ {c.irq - 32 * c.n}]]
       /\ calls' = {}
       /\ UNCHANGED <<rlock, nr_lines, ctlr, rank, pending, inflight_irqs, lr_pending,
                      pause_down, is_running, upcall_pending, vlock, crashed>>

(* case GICD_IPRIORITYR ... GICD_IPRIORITYRN, statement by statement: the   *)
(* width test, the rank lookup and vgic_lock_rank(v, rank)                 *)
ipriority_lock(p, gicd_reg, size, r) ==
    LET rk == vgic_rank_offset(p, 8, gicd_reg - GICD_IPRIORITYR, DABT_WORD)
    IN /\ CanTrap(p)
       /\ In(gicd_reg, GICD_IPRIORITYR, GICD_IPRIORITYRN)
       /\ size \in {DABT_BYTE, DABT_WORD}
       /\ rk # NULL
       /\ rlock[rk] = NoProc
       /\ rlock' = [rlock EXCEPT ![rk] = p]
       /\ ctx' = [ctx EXCEPT ![p] =
              [IdleCtx EXCEPT !.pc = "prio_store", !.op = "ipriority", !.v = p,
                              !.gicd_reg = gicd_reg, !.size = size, !.r = r]]
       /\ calls' = {}
       /\ UNCHANGED <<dlock, nr_lines, ctlr, rank, pending, inflight_irqs, lr_pending, pause_down,
                      is_running, upcall_pending, hw_enabled, vlock, crashed>>

(* The store to rank->ipriority[...], under the rank lock *)
ipriority_store(p) ==
    LET c == ctx[p]
    IN /\ c.pc = "prio_store"
       /\ rank' = vgic_distr_mmio_write(p, c.gicd_reg, c.size, c.r).rank
       /\ ctx' = [ctx EXCEPT ![p].pc = "prio_unlock"]
       /\ calls' = {}
       /\ UNCHANGED <<dlock, rlock, nr_lines, ctlr, pending, inflight_irqs, lr_pending, pause_down,
                      is_running, upcall_pending, hw_enabled, vlock, crashed>>

(* vgic_unlock_rank(v, rank); return 1 *)
ipriority_unlock(p) ==
    LET c == ctx[p]
        rk == vgic_rank_offset(p, 8, c.gicd_reg - GICD_IPRIORITYR, DABT_WORD)
    IN /\ c.pc = "prio_unlock"
       /\ rlock' = [rlock EXCEPT ![rk] = NoProc]
       /\ ctx' = [ctx EXCEPT ![p] = Done(c, 1)]
       /\ calls' = {}
       /\ UNCHANGED <<dlock, nr_lines, ctlr, rank, pending, inflight_irqs, lr_pending, pause_down,
                      is_running, upcall_pending, hw_enabled, vlock, crashed>>

(* case GICD_ISENABLER ... GICD_ISENABLERN and case GICD_ICENABLER ...      *)
(* GICD_ICENABLERN, statement by statement: the width test, the rank       *)
(* lookup and vgic_lock_rank(v, rank)                                      *)
ienable_lock(p, gicd_reg, size, r) ==
    LET set == In(gicd_reg, GICD_ISENABLER, GICD_ISENABLERN)
        clear == In(gicd_reg, GICD_ICENABLER, GICD_ICENABLERN)
        base == IF set THEN GICD_ISENABLER ELSE GICD_ICENABLER
        rk == vgic_rank_offset(p, 1, gicd_reg - base, DABT_WORD)
    IN /\ CanTrap(p)
       /\ set \/ clear
       /\ size = DABT_WORD
       /\ rk # NULL
       /\ rlock[rk] = NoProc
       /\ rlock' = [rlock EXCEPT ![rk] = p]
       /\ ctx' = [ctx EXCEPT ![p] =
              [IdleCtx EXCEPT !.pc = "ien_store", !.v = p,
                              !.op = IF set THEN "enable" ELSE "disable",
                              !.gicd_reg = gicd_reg, !.size = size, !.r = r]]
       /\ calls' = {}
       /\ UNCHANGED <<dlock, nr_lines, ctlr, rank, pending, inflight_irqs, lr_pending, pause_down,
                      is_running, upcall_pending, hw_enabled, vlock, crashed>>

(* tr = rank->ienable; rank->ienable |= *r (or &= ~*r), under the rank lock *)
ienable_store(p) ==
    LET c == ctx[p]
        o == vgic_distr_mmio_write(p, c.gicd_reg, c.size, c.r)
    IN /\ c.pc = "ien_store"
       /\ rank' = o.rank
       /\ ctx' = [ctx EXCEPT ![p] = [c EXCEPT !.pc = "ien_unlock", !.mask = o.mask, !.n = o.n]]
       /\ calls' = {}
       /\ UNCHANGED <<dlock, rlock, nr_lines, ctlr, pending, inflight_irqs, lr_pending, pause_down,
                      is_running, upcall_pending, hw_enabled, vlock, crashed>>

(* The same with the rank lock kept over the transition *)
ienable_unlock_late(p) ==
    LET c == ctx[p]
    IN /\ c.pc = "ien_unlock"
       /\ ctx' = [ctx EXCEPT ![p] =
              [IdleCtx EXCEPT !.pc = IF c.op = "enable" THEN "en_loop" ELSE "dis_loop",
                              !.op = c.op, !.v = p, !.mask = c.mask, !.n = c.n]]
       /\ calls' = {}
       /\ UNCHANGED <<dlock, rlock, nr_lines, ctlr, rank, pending, inflight_irqs, lr_pending,
                      pause_down, is_running, upcall_pending, hw_enabled, vlock, crashed>>

(* vgic_unlock_rank(v, rank), then the call of vgic_enable_irqs or of       *)
(* vgic_disable_irqs with the bits that changed                            *)
ienable_unlock(p) ==
    LET c == ctx[p]
        base == IF c.op = "enable" THEN GICD_ISENABLER ELSE GICD_ICENABLER
        rk == vgic_rank_offset(p, 1, c.gicd_reg - base, DABT_WORD)
    IN /\ c.pc = "ien_unlock"
       /\ rlock' = [rlock EXCEPT ![rk] = NoProc]
       /\ ctx' = [ctx EXCEPT ![p] =
              [IdleCtx EXCEPT !.pc = IF c.op = "enable" THEN "en_loop" ELSE "dis_loop",
                              !.op = c.op, !.v = p, !.mask = c.mask, !.n = c.n]]
       /\ calls' = {}
       /\ UNCHANGED <<dlock, nr_lines, ctlr, rank, pending, inflight_irqs, lr_pending, pause_down,
                      is_running, upcall_pending, hw_enabled, vlock, crashed>>

(* The rank whose fields the next step of processor p reads or writes, or  *)
(* NULL: the priority snapshot of an injection, the store of a priority    *)
(* write or of an enable write.                                            *)
RankAccess(p) ==
    CASE ctx[p].pc = "inj_insert" -> vgic_rank_irq(ctx[p].v, ctx[p].irq)
      [] ctx[p].pc = "prio_store" ->
            vgic_rank_offset(p, 8, ctx[p].gicd_reg - GICD_IPRIORITYR, DABT_WORD)
      [] ctx[p].pc = "ien_store" ->
            vgic_rank_offset(p, 1, ctx[p].gicd_reg - (IF ctx[p].op = "enable"
                                                      THEN GICD_ISENABLER
                                                      ELSE GICD_ICENABLER), DABT_WORD)
      [] OTHER -> NULL

----------------------------------------------------------------------------
(* The rest of the hypervisor: vCPUs go down and come back, are scheduled  *)
(* in and out, and have event-channel upcalls latched.                     *)

vcpu_down(v) ==
    /\ ctx[v].pc = "idle"
    /\ v \notin pause_down
    /\ pause_down' = pause_down \cup {v}
    /\ is_running' = is_running \ {v}
    /\ calls' = {}
    /\ UNCHANGED <<dlock, rlock, nr_lines, ctlr, rank, pending, inflight_irqs, lr_pending,
                   upcall_pending, hw_enabled, vlock, ctx, crashed>>

vcpu_up(v) ==
    /\ ctx[v].pc = "idle"
    /\ v \in pause_down
    /\ pause_down' = pause_down \ {v}
    /\ is_running' = is_running \cup {v}
    /\ calls' = {}
    /\ UNCHANGED <<dlock, rlock, nr_lines, ctlr, rank, pending, inflight_irqs, lr_pending,
                   upcall_pending, hw_enabled, vlock, ctx, crashed>>

evtchn_set_pending(v) ==
    /\ v \notin upcall_pending
    /\ upcall_pending' = upcall_pending \cup {v}
    /\ calls' = {}
    /\ UNCHANGED <<dlock, rlock, nr_lines, ctlr, rank, pending, inflight_irqs, lr_pending, pause_down,
                   is_running, hw_enabled, vlock, ctx, crashed>>

(* The physical interface moves a line of v's list-register queue into a   *)
(* list register: the guest can see it.                                    *)
gic_set_lr(v, irq) ==
    LET d == irq_to_pending(v, irq)
    IN /\ irq < 32 + nr_lines
       /\ irq \in lr_pending[v]
       /\ vlock[v] = NoProc
       /\ lr_pending' = [lr_pending EXCEPT ![v] = @ \ {irq}]
       /\ pending' = [pending EXCEPT ![d].lr_queue = FALSE,
                                     ![d].status = @ \cup {GIC_IRQ_GUEST_VISIBLE}]
       /\ calls' = {}
       /\ UNCHANGED <<dlock, rlock, nr_lines, ctlr, rank, inflight_irqs, pause_down, is_running,
                      upcall_pending, hw_enabled, vlock, ctx, crashed>>

(* The guest acknowledges a line it can see: the line is active *)
lr_active(v, irq) ==
    LET d == irq_to_pending(v, irq)
    IN /\ irq < 32 + nr_lines
       /\ GIC_IRQ_GUEST_VISIBLE \in pending[d].status
       /\ GIC_IRQ_GUEST_ACTIVE \notin pending[d].status
       /\ vlock[v] = NoProc
       /\ pending' = [pending EXCEPT ![d].status = @ \cup {GIC_IRQ_GUEST_ACTIVE}]
       /\ calls' = {}
       /\ UNCHANGED <<dlock, rlock, nr_lines, ctlr, rank, inflight_irqs, lr_pending, pause_down,
                      is_running, upcall_pending, hw_enabled, vlock, ctx, crashed>>

----------------------------------------------------------------------------
(* Specifications.  Each draws the operations the hypervisor and the guest *)
(* issue from a small set of inputs.  In SpecRace, SpecRank, SpecLock and  *)
(* SpecEvtchn the processors run concurrently; in the others an operation  *)
(* starts when no other is in progress.                                    *)

AllIdle == \A p \in Procs : ctx[p].pc = "idle"

InjectSteps ==
    \E p \in Procs :
        \/ inject_lock(p)
        \/ inject_check(p)
        \/ inject_insert(p)
        \/ inject_notify(p)

EnableSteps ==
    \E p \in Procs :
        \/ enable_loop(p)
        \/ enable_raise(p)
        \/ enable_desc(p)

DisableSteps ==
    \E p \in Procs :
        \/ disable_loop(p)
        \/ disable_remove(p)
        \/ disable_desc(p)

(* The sections under the lock of a backing physical interrupt *)
DescSteps ==
    \E p \in Procs :
        \/ enable_desc_locked(p)
        \/ disable_desc_locked(p)

(* The lines injected, as <<vCPU, line>> *)
InjectTargets == {<<0, 0>>, <<0, 1>>, <<0, 2>>, <<0, 3>>}

(* The writes that program the priorities, as <<offset, size, value>> *)
InjectWrites ==
    {<<GICD_IPRIORITYR, DABT_WORD, Word4(\h40, \h80, \h10, \h80)>>,
     <<GICD_IPRIORITYR + 1, DABT_BYTE, Word4(0, 0, 0, \hC0)>>}

NextInject ==
    \/ \E p \in Procs, t \in InjectTargets :
          AllIdle /\ vgic_vcpu_inject_irq(p, t[1], t[2])
    \/ InjectSteps
    \/ \E w \in InjectWrites : AllIdle /\ MmioWrite(0, w[1], w[2], w[3])
    \/ AllIdle /\ vgic_clear_pending_irqs(0, 0)

SpecInject == Init /\ [][NextInject]_vars

(* Injections into vCPUs that go down and come back, of lines that may be  *)
(* enabled.                                                                *)
CoalesceTargets == {<<0, 1>>, <<0, 2>>, <<0, 32>>, <<1, 32>>}

CoalesceWrites ==
    {<<GICD_IPRIORITYR, DABT_WORD, Word4(0, \h10, \h80, 0)>>,
     <<GICD_ISENABLER, DABT_WORD, {1}>>}

NextCoalesce ==
    \/ \E p \in Procs, t \in CoalesceTargets :
          AllIdle /\ vgic_vcpu_inject_irq(p, t[1], t[2])
    \/ InjectSteps
    \/ \E w \in CoalesceWrites : AllIdle /\ MmioWrite(0, w[1], w[2], w[3])
    \/ EnableSteps
    \/ \E v \in Vcpus : AllIdle /\ vgic_clear_pending_irqs(v, v)
    \/ \E v \in Vcpus : AllIdle /\ vcpu_down(v)
    \/ \E v \in Vcpus : AllIdle /\ vcpu_up(v)

SpecCoalesce == Init /\ [][NextCoalesce]_vars

(* Injections from both processors at once *)
RaceTargets == {<<0, 1>>, <<0, 32>>, <<1, 32>>}

(* The places a descriptor is linked at: <<vCPU, position in its list>> *)
Links(d) == {vi \in UNION {{v} \X (1..Len(inflight_irqs[v])) : v \in Vcpus} :
                inflight_irqs[vi[1]][vi[2]] = d}

(* No descriptor was added to a list while linked into one.  Past that the *)
(* list pointers are corrupt and what the code does is undefined, so the   *)
(* specification stops there.                                              *)
ListsSound ==
    \A v \in Vcpus : \A i \in 1..Len(inflight_irqs[v]) :
        Cardinality(Links(inflight_irqs[v][i])) = 1

NextRace ==
    \/ \E p \in Procs, t \in RaceTargets :
          ListsSound /\ vgic_vcpu_inject_irq(p, t[1], t[2])
    \/ ListsSound /\ InjectSteps
    \/ \E v \in Vcpus : ListsSound /\ vgic_clear_pending_irqs(v, v)

SpecRace == Init /\ [][NextRace]_vars

(* Lines are injected, enabled and disabled by the guest, and shown to the  *)
(* guest by the physical interface: private line 1 of vCPU 0 and shared    *)
(* line 32.                                                                *)
EnableTargets == {<<0, 1>>, <<0, 32>>, <<1, 32>>}

EnableWrites ==
    {<<GICD_ISENABLER, DABT_WORD, {1}>>,
     <<GICD_ISENABLER, DABT_WORD, {1, 2}>>,
     <<GICD_ICENABLER, DABT_WORD, {1, 3}>>,
     <<GICD_ICENABLER, DABT_WORD, {2, 3}>>,
     <<GICD_ISENABLER + 4, DABT_WORD, {0}>>,
     <<GICD_ICENABLER + 4, DABT_WORD, {0}>>,
     <<GICD_IPRIORITYR, DABT_WORD, Word4(0, 0, \h40, 0)>>}

NextEnable ==
    \/ \E p \in Procs, t \in EnableTargets :
          AllIdle /\ vgic_vcpu_inject_irq(p, t[1], t[2])
    \/ InjectSteps
    \/ \E w \in EnableWrites : AllIdle /\ MmioWrite(0, w[1], w[2], w[3])
    \/ EnableSteps
    \/ DisableSteps
    \/ DescSteps
    \/ \E t \in EnableTargets : AllIdle /\ gic_set_lr(t[1], t[2])
    \/ AllIdle /\ lr_active(0, 1)

SpecEnable == Init /\ [][NextEnable]_vars

(* Software-generated interrupts: the values written to GICD_SGIR are SGI 1 *)
(* to the target list {1, 2}, SGI 2 to the sender alone, SGI 1 to all but  *)
(* the sender, and SGI 2 to vCPU 0 with the reserved filter value; vCPU 1  *)
(* goes down and comes back.                                               *)
SgiValues ==
    {Word4(\h00, \h06, \h00, \h01),
     Word4(\h02, \h00, \h00, \h02),
     Word4(\h01, \h00, \h00, \h01),
     Word4(\h03, \h01, \h00, \h02)}

NextSgi ==
    \/ \E p \in Procs, r \in SgiValues : AllIdle /\ MmioWrite(p, GICD_SGIR, DABT_WORD, r)
    \/ \E p \in Procs : sgi_loop(p)
    \/ InjectSteps
    \/ \E v \in Vcpus : AllIdle /\ vgic_clear_pending_irqs(v, v)
    \/ AllIdle /\ vcpu_down(1)
    \/ AllIdle /\ vcpu_up(1)

SpecSgi == Init /\ [][NextSgi]_vars

(* The guest turns the distributor on and off while lines are injected: the *)
(* words written to GICD_CTLR are 1, 0xFFFFFFFF, 0 and 0xFFFFFFFE.         *)
CtlrValues ==
    {Word4(\h00, \h00, \h00, \h01), Word4(\hFF, \hFF, \hFF, \hFF),
     Word4(\h00, \h00, \h00, \h00), Word4(\hFF, \hFF, \hFF, \hFE)}

CtlrTargets == {<<0, 1>>, <<1, 2>>, <<0, 32>>}

NextCtlr ==
    \/ \E p \in Procs, r \in CtlrValues : MmioWrite(p, GICD_CTLR, DABT_WORD, r)
    \/ \E p \in Procs : MmioRead(p, GICD_CTLR, DABT_WORD, 0)
    \/ \E p \in Procs, t \in CtlrTargets : vgic_vcpu_inject_irq(p, t[1], t[2])
    \/ InjectSteps
    \/ \E v \in Vcpus : AllIdle /\ vgic_clear_pending_irqs(v, v)

SpecCtlr == Init /\ [][NextCtlr]_vars

(* Priorities are written while lines are injected, on both processors:    *)
(* vCPU 0 writes the priority byte of its line 1 and vCPU 1 the priority   *)
(* word of lines 32 to 35.                                                 *)
RankWrites ==
    {<<0, GICD_IPRIORITYR + 1, DABT_BYTE, Word4(0, 0, 0, \h40)>>,
     <<1, GICD_IPRIORITYR + 32, DABT_WORD, Word4(0, 0, 0, \h80)>>}

RankTargets == {<<0, 1>>, <<0, 32>>}

NextRank ==
    \/ \E w \in RankWrites : ipriority_lock(w[1], w[2], w[3], w[4])
    \/ \E p \in Procs : ipriority_store(p)
    \/ \E p \in Procs : ipriority_unlock(p)
    \/ \E p \in Procs, t \in RankTargets : vgic_vcpu_inject_irq(p, t[1], t[2])
    \/ InjectSteps
    \/ AllIdle /\ vgic_clear_pending_irqs(0, 0)

SpecRank == Init /\ [][NextRank]_vars

----------------------------------------------------------------------------
(* Concurrent operations: either vCPU writes the enable registers of the   *)
(* shared line 32, statement by statement, and either processor injects    *)
(* the line into vCPU 0, to which vCPU 1 sends SGI 2.  Nothing waits for   *)
(* the other processor to be idle.                                         *)

LockWrites ==
    {<<GICD_ISENABLER + 4, {0}>>,
     <<GICD_ICENABLER + 4, {0}>>}

LockTargets == {<<0, 32>>}

LockSgi == Word4(\h01, \h00, \h00, \h02)

LockSteps ==
    \E p \in Procs :
        \/ ienable_store(p)
        \/ ienable_unlock(p)
        \/ sgi_loop(p)

NextLock ==
    \/ \E p \in Procs, t \in LockTargets : vgic_vcpu_inject_irq(p, t[1], t[2])
    \/ InjectSteps
    \/ \E p \in Procs, w \in LockWrites : ienable_lock(p, w[1], DABT_WORD, w[2])
    \/ MmioWrite(1, GICD_SGIR, DABT_WORD, LockSgi)
    \/ LockSteps
    \/ EnableSteps
    \/ DisableSteps
    \/ DescSteps

SpecLock == Init /\ [][NextLock]_vars

(* The steps that carry on the operation processor p is in.  A processor   *)
(* in the hypervisor is not preempted, and one that spins on a lock which  *)
(* is released again and again gets it.                                    *)
Continue(p) ==
    \/ inject_lock(p)
    \/ inject_check(p)
    \/ inject_insert(p)
    \/ inject_notify(p)
    \/ ienable_store(p)
    \/ ienable_unlock(p)
    \/ sgi_loop(p)
    \/ enable_loop(p)
    \/ enable_raise(p)
    \/ enable_desc(p)
    \/ enable_desc_locked(p)
    \/ disable_loop(p)
    \/ disable_remove(p)
    \/ disable_desc(p)
    \/ disable_desc_locked(p)

SpecLockFair == SpecLock /\ \A p \in Procs : SF_vars(Continue(p))

(* The event-channel line: vCPU 0 sets and clears its enable bit, the      *)
(* upcall gets latched, processor 1 injects the line at any time, and the  *)
(* physical interface shows it to the guest between operations.            *)
EvtchnWrites ==
    {<<GICD_ISENABLER, Shl({0}, evtchn_irq)>>,
     <<GICD_ICENABLER, Shl({0}, evtchn_irq)>>}

NextEvtchn ==
    \/ evtchn_set_pending(0)
    \/ vgic_vcpu_inject_irq(1, 0, evtchn_irq)
    \/ InjectSteps
    \/ \E w \in EvtchnWrites : MmioWrite(0, w[1], DABT_WORD, w[2])
    \/ EnableSteps
    \/ DisableSteps
    \/ AllIdle /\ gic_set_lr(0, evtchn_irq)

SpecEvtchn == Init /\ [][NextEvtchn]_vars /\ \A p \in Procs : SF_vars(Continue(p))

(* A domain with 8 shared lines, 32 to 39, in one rank: vCPU 0 writes the   *)
(* enable registers of that rank and of its private lines.                 *)
TableWrites ==
    {<<GICD_ISENABLER, {1}>>,
     <<GICD_ICENABLER, {1}>>,
     <<GICD_ISENABLER + 4, {0, 7}>>,
     <<GICD_ISENABLER + 4, {7, 8}>>,
     <<GICD_ICENABLER + 4, {0, 8}>>,
     <<GICD_ICENABLER + 4, {7}>>}

NextTable ==
    \/ \E w \in TableWrites : AllIdle /\ MmioWrite(0, w[1], DABT_WORD, w[2])
    \/ EnableSteps
    \/ DisableSteps
    \/ DescSteps

SpecTable == InitLines(PartialRankLines) /\ [][NextTable]_vars


(* Trapped accesses of vCPU 0 to the register groups, at every width: the   *)
(* single registers, the private rank's words, and for each per-line group *)
(* an offset whose rank no domain here has (word 2 of a bitmap, line 64).  *)
MmioRegs ==
    {GICD_CTLR, GICD_CTLR + 1, GICD_TYPER, GICD_IGROUPR,
     GICD_ISENABLER, GICD_ISENABLER + 8,
     GICD_ICENABLER, GICD_ICENABLER + 8,
     GICD_ISPENDR, GICD_ISPENDR + 8, GICD_ICPENDR, GICD_ICPENDR + 8,
     GICD_ISACTIVER, GICD_ISACTIVER + 8, GICD_ICACTIVER, GICD_ICACTIVER + 8,
     GICD_IPRIORITYR + 64,
     GICD_ITARGETSR, GICD_ITARGETSR + 8, GICD_ITARGETSR + 64,
     GICD_ICFGR, GICD_ICFGR + 4, GICD_ICFGR + 16,
     GICD_SGIR, GICD_CPENDSGIR, GICD_SPENDSGIR, GICD_ICPIDR2}

MmioSizes == {DABT_BYTE, DABT_HALF_WORD, DABT_WORD}

(* The value written: to GICD_SGIR, SGI 3 to the sender alone; elsewhere a *)
(* word with bits 0, 3, 16 and 31 set (as an enable bitmap: two SGIs, a    *)
(* PPI and the event-channel line).                                        *)
MmioSgi == Word4(\h02, \h00, \h00, \h03)
MmioWord == Word4(\h80, \h01, \h00, \h09)
MmioVal(gicd_reg) == IF gicd_reg = GICD_SGIR THEN MmioSgi ELSE MmioWord

NextMmio ==
    \/ \E reg \in MmioRegs, size \in MmioSizes :
          AllIdle /\ MmioRead(0, reg, size, 0)
    \/ \E reg \in MmioRegs, size \in MmioSizes :
          AllIdle /\ MmioWrite(0, reg, size, MmioVal(reg))
    \/ EnableSteps
    \/ DisableSteps
    \/ \E p \in Procs : sgi_loop(p)
    \/ InjectSteps

SpecMmio == Init /\ [][NextMmio]_vars

(* Writes to the writable fields of the ranks, each at a permitted width,  *)
(* as <<offset, size, value>>.  A byte store hands over the whole source   *)
(* register: the bytes above the low one are not part of the value.        *)
RoundTripWrites ==
    {<<GICD_ISENABLER, DABT_WORD, {1}>>,
     <<GICD_ISENABLER, DABT_WORD, {2}>>,
     <<GICD_ISENABLER + 4, DABT_WORD, {0}>>,
     <<GICD_IPRIORITYR, DABT_WORD, Word4(\h40, \h30, \h20, \h10)>>,
     <<GICD_IPRIORITYR + 1, DABT_BYTE, Word4(\hAA, \hBB, \hCC, \h7F)>>,
     <<GICD_IPRIORITYR + 3, DABT_BYTE, Word4(\hAA, \hBB, \hCC, \h7F)>>,
     <<GICD_IPRIORITYR + 32, DABT_WORD, Word4(\h40, \h30, \h20, \h10)>>,
     <<GICD_IPRIORITYR + 32, DABT_BYTE, Word4(\hAA, \hBB, \hCC, \h7F)>>,
     <<GICD_ITARGETSR + 32, DABT_WORD, Word4(\h01, \h02, \h01, \h03)>>,
     <<GICD_ITARGETSR + 34, DABT_BYTE, Word4(\hAA, \hBB, \hCC, \h03)>>,
     <<GICD_ICFGR + 8, DABT_WORD, Word4(\h55, \h00, \hAA, \hFF)>>}

NextRoundTrip ==
    \/ \E w \in RoundTripWrites : AllIdle /\ MmioWrite(0, w[1], w[2], w[3])
    \/ \E w \in RoundTripWrites : AllIdle /\ MmioRead(0, w[1], w[2], 0)
    \/ EnableSteps
    \/ \E p \in Procs : enable_desc_locked(p)

SpecRoundTrip == Init /\ [][NextRoundTrip]_vars

----------------------------------------------------------------------------
(* Properties of the injection engine *)

Prio(d) == pending[d].priority

Sorted(list) == \A i \in 1..(Len(list) - 1) : Prio(list[i]) <= Prio(list[i + 1])

(* list with its k-th entry taken out *)
DropAt(list, k) == SubSeq(list, 1, k - 1) \o SubSeq(list, k + 1, Len(list))

(* A step that lengthens v's list adds one entry, behind every entry of    *)
(* lower or equal priority value and right before one of greater value.    *)
InsertedInPlace(v) ==
    Len(inflight_irqs'[v]) > Len(inflight_irqs[v]) =>
        \E k \in 1..Len(inflight_irqs'[v]) :
            /\ DropAt(inflight_irqs'[v], k) = inflight_irqs[v]
            /\ \A i \in 1..(k - 1) :
                  pending'[inflight_irqs'[v][i]].priority
                      <= pending'[inflight_irqs'[v][k]].priority
            /\ k < Len(inflight_irqs'[v]) =>
                  pending'[inflight_irqs'[v][k + 1]].priority
                      > pending'[inflight_irqs'[v][k]].priority

(* C1: after any sequence of injections every inflight list is in          *)
(* ascending order of the snapshotted priorities, and each insertion puts  *)
(* the new entry right before the first entry of strictly greater priority *)
(* value, or at the tail: entries of equal priority stay in insertion      *)
(* order.                                                                  *)
C1_InflightOrdered ==
    /\ [](\A v \in Vcpus : Sorted(inflight_irqs[v]))
    /\ [][\A v \in Vcpus : InsertedInPlace(v)]_vars

(* The lines of priorities 0x80, 0x10, 0x80, 0x40, injected in that order, *)
(* stand as 0x10, 0x40, the first 0x80, the second 0x80.                   *)
C1_Witness ==
    /\ inflight_irqs[0] = <<(<<0, 1>>), (<<0, 3>>), (<<0, 0>>), (<<0, 2>>)>>
    /\ [i \in 1..4 |-> Prio(inflight_irqs[0][i])] = <<16, 64, 128, 128>>

(* C2: every descriptor is linked into at most one inflight list, at one   *)
(* place, whatever the interleaving of the injections.                     *)
C2_AtMostOneList == \A d \in DOMAIN pending : Cardinality(Links(d)) <= 1

(* The steps of processor p's injection that find the line linked into the *)
(* target's list.                                                          *)
InjectingLinked(p) ==
    /\ ctx[p].pc \in {"inj_lock", "inj_check", "inj_notify"}
    /\ ctx'[p] # ctx[p]
    /\ Links(irq_to_pending(ctx[p].v, ctx[p].irq)) # {}
    /\ \A l \in Links(irq_to_pending(ctx[p].v, ctx[p].irq)) : l[1] = ctx[p].v

(* C3: injecting a line that is linked into the target's inflight list     *)
(* leaves every list as it is, with one entry for the line, sets the       *)
(* queued bit and asks the physical interface to re-latch the line.        *)
C3_InjectInflightCoalesces ==
    [][\A p \in Procs :
          InjectingLinked(p) =>
              LET v == ctx[p].v
                  irq == ctx[p].irq
                  n == irq_to_pending(v, irq)
              IN /\ inflight_irqs' = inflight_irqs
                 /\ Cardinality(Links(n)) = 1
                 /\ ctx[p].pc = "inj_check" =>
                       /\ GIC_IRQ_GUEST_QUEUED \in pending'[n].status
                       /\ <<"gic_raise_inflight_irq", v, irq>> \in calls']_vars

(* A second injection of line 1 into vCPU 0 was coalesced *)
C3_Witness ==
    /\ <<"gic_raise_inflight_irq", 0, 1>> \in calls
    /\ Cardinality(Links(<<0, 1>>)) = 1
    /\ GIC_IRQ_GUEST_QUEUED \in pending[<<0, 1>>].status

(* C4: no step of an injection into a vCPU that is down changes a list, a  *)
(* descriptor or a queue, or calls the physical interface or the           *)
(* scheduler.                                                              *)
C4_InjectOfflineNoOp ==
    [][\A p \in Procs :
          (/\ ctx[p].pc \in {"inj_lock", "inj_check", "inj_insert", "inj_notify"}
           /\ ctx'[p] # ctx[p]
           /\ ctx[p].v \in pause_down) =>
              /\ UNCHANGED <<inflight_irqs, pending, lr_pending>>
              /\ calls' = {}]_vars

----------------------------------------------------------------------------
(* Properties of the trapped accesses *)

(* The per-line register groups: <<first offset, last offset, bits per     *)
(* line>>                                                                  *)
PerLineGroups ==
    {<<GICD_ISENABLER, GICD_ISENABLERN, 1>>, <<GICD_ICENABLER, GICD_ICENABLERN, 1>>,
     <<GICD_ISPENDR, GICD_ISPENDRN, 1>>, <<GICD_ICPENDR, GICD_ICPENDRN, 1>>,
     <<GICD_ISACTIVER, GICD_ISACTIVERN, 1>>, <<GICD_ICACTIVER, GICD_ICACTIVERN, 1>>,
     <<GICD_IPRIORITYR, GICD_IPRIORITYRN, 8>>, <<GICD_ITARGETSR, GICD_ITARGETSRN, 8>>,
     <<GICD_ICFGR, GICD_ICFGRN, 2>>}

(* gicd_reg lies in a per-line group and resolves to no rank of the domain *)
AbsentRank(gicd_reg) ==
    \E g \in PerLineGroups :
        /\ In(gicd_reg, g[1], g[2])
        /\ vgic_rank_offset(0, g[3], gicd_reg - g[1], DABT_WORD) = NULL

(* The step changed no controller, rank, descriptor or queue state *)
StateKept == UNCHANGED <<ctlr, rank, pending, inflight_irqs, lr_pending, hw_enabled>>

(* The access of the step was reported handled and the domain lives *)
Accepted(p) == ctx'[p].ret = 1 /\ ~crashed'

(* C5: an access of any width to an offset of a per-line group whose rank  *)
(* the domain does not have is benign: a read returns zero, a write        *)
(* changes no state, and the access is reported handled without ending the *)
(* domain.                                                                 *)
C5_AbsentRankBenign ==
    [][\A reg \in MmioRegs, size \in MmioSizes :
          AbsentRank(reg) =>
              /\ MmioRead(0, reg, size, 0) =>
                    /\ vgic_distr_mmio_read(0, reg, size, 0) = RHandled(Zero)
                    /\ Accepted(0)
              /\ MmioWrite(0, reg, size, MmioVal(reg)) =>
                    /\ StateKept
                    /\ Accepted(0)]_vars

(* The target mask of line irq as vCPU v reads it through GICD_ITARGETSR *)
TargetMaskRead(v, irq) == vgic_distr_mmio_read(v, GICD_ITARGETSR + irq, DABT_BYTE, 0)

(* C7: in every reachable state the target mask every vCPU reads for each  *)
(* of its private lines 0..31 names that vCPU alone.                       *)
C7_PrivateTargetsHardWired ==
    \A v \in Vcpus : \A irq \in 0..31 : TargetMaskRead(v, irq) = RHandled({v})

(* C8: the config words 0 (lines 0..15) and 1 (lines 16..31) of every      *)
(* private rank hold their initial value in every reachable state: no      *)
(* guest write changes the trigger config of an SGI or a PPI.              *)
C8_PrivateConfigKept ==
    \A v \in Vcpus : rank[Priv(v)].icfg = vcpu_vgic_init(v).icfg

(* The register groups of the distributor: <<first offset, last offset,    *)
(* widths allowed>>                                                        *)
WordOnly == {DABT_WORD}
ByteOrWord == {DABT_BYTE, DABT_WORD}
RegisterGroups ==
    {<<GICD_CTLR, GICD_CTLR, WordOnly>>, <<GICD_TYPER, GICD_TYPER, WordOnly>>,
     <<GICD_IIDR, GICD_IIDR, WordOnly>>, <<GICD_IGROUPR, GICD_IGROUPRN, WordOnly>>,
     <<GICD_ISENABLER, GICD_ISENABLERN, WordOnly>>,
     <<GICD_ICENABLER, GICD_ICENABLERN, WordOnly>>,
     <<GICD_ISPENDR, GICD_ISPENDRN, ByteOrWord>>,
     <<GICD_ICPENDR, GICD_ICPENDRN, ByteOrWord>>,
     <<GICD_ISACTIVER, GICD_ISACTIVERN, WordOnly>>,
     <<GICD_ICACTIVER, GICD_ICACTIVERN, WordOnly>>,
     <<GICD_IPRIORITYR, GICD_IPRIORITYRN, ByteOrWord>>,
     <<GICD_ITARGETSR, GICD_ITARGETSRN, ByteOrWord>>,
     <<GICD_ICFGR, GICD_ICFGRN, WordOnly>>, <<GICD_NSACR, GICD_NSACRN, WordOnly>>,
     <<GICD_SGIR, GICD_SGIR, WordOnly>>,
     <<GICD_CPENDSGIR, GICD_CPENDSGIRN, ByteOrWord>>,
     <<GICD_SPENDSGIR, GICD_SPENDSGIRN, ByteOrWord>>,
     <<GICD_ICPIDR2, GICD_ICPIDR2, WordOnly>>}

(* gicd_reg is an offset of a register group that does not allow size *)
WrongWidth(gicd_reg, size) ==
    \E g \in RegisterGroups : In(gicd_reg, g[1], g[2]) /\ size \notin g[3]

C10_TargetListWidths ==
    [][\A reg \in {r \in MmioRegs : In(r, GICD_ITARGETSR, GICD_ITARGETSRN)
                                       /\ ~AbsentRank(r)},
          size \in MmioSizes :
          /\ (size \in ByteOrWord /\ MmioRead(0, reg, size, 0)) => Accepted(0)
          /\ (size \in ByteOrWord /\ MmioWrite(0, reg, size, MmioVal(reg))) =>
                /\ Accepted(0)
                /\ reg < GICD_ITARGETSR + 32 => StateKept
          /\ (size \notin ByteOrWord
                /\ (MmioRead(0, reg, size, 0) \/ MmioWrite(0, reg, size, MmioVal(reg)))) =>
                crashed']_vars

(* The word that holds gicd_reg, as vCPU v reads it *)
WordRead(v, gicd_reg) == vgic_distr_mmio_read(v, 4 * (gicd_reg \div 4), DABT_WORD, 0)

(* The byte lane b of the word that holds gicd_reg, as vCPU v reads it *)
LaneRead(v, gicd_reg, b) == vgic_distr_mmio_read(v, 4 * (gicd_reg \div 4) + b, DABT_BYTE, 0)

(* What a read at w's offset and width returns after the write w *)
WrittenValue(w) ==
    CASE In(w[1], GICD_ISENABLER, GICD_ISENABLERN) -> WordRead(0, w[1]).val \cup w[3]
      [] w[2] = DABT_BYTE -> w[3] \cap (0..7)
      [] OTHER -> w[3]

(* C6: a write to a writable field of an existing rank, at a permitted     *)
(* width, reads back at the same offset and width as the value written     *)
(* (set-enable: the old bitmap OR the value); a byte write keeps the other *)
(* three lanes of its word; every other word written in this              *)
(* specification keeps its value; and the same write once more changes no  *)
(* register and enables no further line.                                   *)
C6_WriteReadRoundTrip ==
    [][\A w \in RoundTripWrites :
          (~AbsentRank(w[1]) /\ MmioWrite(0, w[1], w[2], w[3])) =>
              /\ vgic_distr_mmio_read(0, w[1], w[2], 0)' = RHandled(WrittenValue(w))
              /\ w[2] = DABT_BYTE =>
                    \A b \in (0..3) \ {w[1] % 4} :
                        LaneRead(0, w[1], b)' = LaneRead(0, w[1], b)
              /\ \A o \in RoundTripWrites :
                    (o[1] \div 4) # (w[1] \div 4) => WordRead(0, o[1])' = WordRead(0, o[1])
              /\ vgic_distr_mmio_write(0, w[1], w[2], w[3])'.rank = rank'
              /\ vgic_distr_mmio_write(0, w[1], w[2], w[3])'.ctlr = ctlr'
              /\ vgic_distr_mmio_write(0, w[1], w[2], w[3])'.mask = {}]_vars

(* Byte writes replaced lanes 1 and 3 of a priority word written before,   *)
(* lane 2 of a shared target word, and two set-enable writes added up.     *)
C6_Witness ==
    /\ nr_lines = 32
    /\ rank[Priv(0)].ipriority[0] = Word4(\h7F, \h30, \h7F, \h10)
    /\ rank[Shared(0)].itargets[0] = Word4(\h01, \h03, \h01, \h03)
    /\ rank[Priv(0)].ienable = {1, 2}

----------------------------------------------------------------------------
(* The enable and disable transitions *)

LinkedAt(v, d) == \E i \in 1..Len(inflight_irqs[v]) : inflight_irqs[v][i] = d

Raised(out) == {c \in out : c[1] = "gic_raise_guest_irq"}

(* C11: when a set-enable write newly enables a line that is linked into    *)
(* the writing vCPU's inflight list and not visible to the guest, the      *)
(* physical interface is asked to raise it with the descriptor's           *)
(* snapshotted priority and the list keeps its entries and its order, the  *)
(* line linked once; when the line is inflight and visible, or not         *)
(* inflight, nothing is raised.                                            *)
C11_EnableRaisesInflight ==
    [][\A p \in Procs :
          (ctx[p].pc = "en_raise" /\ ctx'[p].pc = "en_desc") =>
              LET v == ctx[p].v
                  irq == ctx[p].irq
                  d == irq_to_pending(v, irq)
              IN (LinkedAt(v, d) \/ Links(d) = {}) =>
                 /\ inflight_irqs' = inflight_irqs
                 /\ IF LinkedAt(v, d) /\ GIC_IRQ_GUEST_VISIBLE \notin pending[d].status
                    THEN /\ Raised(calls') =
                              {<<"gic_raise_guest_irq", v, irq, pending[d].priority>>}
                         /\ irq \in lr_pending'[v]
                         /\ Cardinality(Links(d)) = 1
                    ELSE /\ Raised(calls') = {}
                         /\ lr_pending' = lr_pending]_vars

(* Line 1 of vCPU 0, inflight with priority 0x40, was raised by its enable *)
C11_Witness ==
    /\ ctx[0].pc = "en_desc"
    /\ ctx[0].op = "enable"
    /\ <<"gic_raise_guest_irq", 0, 1, 64>> \in calls
    /\ LinkedAt(0, <<0, 1>>)

(* The descriptor is in no inflight list and in no list-register queue *)
Unqueued(d) ==
    /\ Links(d) = {}
    /\ ~pending[d].inflight
    /\ ~pending[d].lr_queue
    /\ \A w \in Vcpus : irq_to_pending(w, d[2]) = d => d[2] \notin lr_pending[w]

(* The same of the state a step leads to *)
UnqueuedNext(d) ==
    /\ \A w \in Vcpus : \A i \in 1..Len(inflight_irqs'[w]) : inflight_irqs'[w][i] # d
    /\ ~pending'[d].inflight
    /\ ~pending'[d].lr_queue
    /\ \A w \in Vcpus : irq_to_pending(w, d[2]) = d => d[2] \notin lr_pending'[w]

----------------------------------------------------------------------------
(* Software-generated interrupts *)

(* C13: a write to GICD_SGIR with a target list skips, without a fault, a   *)
(* crash or a change of state, every named id that has no vCPU and every   *)
(* named id whose vCPU is not online, injects into every other named vCPU, *)
(* and is reported handled.                                                *)
C13_SgiSkipsAbsentAndOffline ==
    [][\A p \in Procs :
          (ctx[p].pc = "sgi_loop" /\ ctx'[p] # ctx[p]) =>
              LET left == ctx[p].mask \cap (0..(max_vcpus - 1))
                  id == Min(left)
              IN IF left = {}
                 THEN ctx'[p].pc = "idle" /\ ctx'[p].ret = 1
                 ELSE IF id \notin Vcpus \/ ~is_vcpu_online(id)
                 THEN /\ ctx'[p].pc = "sgi_loop"
                      /\ ctx'[p].mask = ctx[p].mask \ {id}
                      /\ StateKept
                      /\ ~crashed'
                 ELSE /\ ctx'[p].pc = "inj_lock"
                      /\ ctx'[p].v = id
                      /\ ctx'[p].irq = ctx[p].irq]_vars

(* The filter field of r is none of target list, all but self, self *)
BadFilter(r) ==
    (r \cap GICD_SGI_TARGET_LIST_MASK) \notin
        {GICD_SGI_TARGET_LIST, GICD_SGI_TARGET_OTHERS, GICD_SGI_TARGET_SELF}

SgiFilter(p) == ctx[p].r \cap GICD_SGI_TARGET_LIST_MASK

(* The step leaves vCPU w's inflight list and private descriptors alone *)
VcpuKept(w) ==
    /\ inflight_irqs'[w] = inflight_irqs[w]
    /\ lr_pending'[w] = lr_pending[w]
    /\ \A i \in 0..31 : pending'[<<w, i>>] = pending[<<w, i>>]

----------------------------------------------------------------------------
(* Single registers *)

ActiveRead == vgic_distr_mmio_read(0, GICD_ISACTIVER, DABT_WORD, 0)

CtlrRead == vgic_distr_mmio_read(0, GICD_CTLR, DABT_WORD, 0)

(* Bit 0 of a word, as a word *)
EnableBit(r) == IF 0 \in r THEN Word4(0, 0, 0, 1) ELSE Zero

(* C17: a word write to GICD_CTLR stores bit 0 of the value written and     *)
(* nothing else, no other step changes what is stored, and a word read     *)
(* returns exactly what is stored: after any sequence of writes the        *)
(* register reads as bit 0 of the last value written (1 after 0x00000001,  *)
(* 1 after 0xFFFFFFFF).                                                    *)
C17_CtlrEnableBit ==
    [][/\ \A p \in Procs : \A r \in CtlrValues :
            MmioWrite(p, GICD_CTLR, DABT_WORD, r) =>
                /\ ctlr' = EnableBit(r)
                /\ CtlrRead' = RHandled(EnableBit(r))
                /\ Accepted(p)
       /\ ctlr' # ctlr =>
            \E p \in Procs : \E r \in CtlrValues : MmioWrite(p, GICD_CTLR, DABT_WORD, r)
       /\ CtlrRead' = RHandled(ctlr')
       /\ ctlr' \in {Zero, Word4(0, 0, 0, 1)}]_vars

(* The distributor was turned on by one vCPU while the other was injecting *)
C17_Witness ==
    /\ ctlr = Word4(0, 0, 0, 1)
    /\ CtlrRead = RHandled(Word4(0, 0, 0, 1))
    /\ \E p \in Procs : ctx[p].pc = "idle" /\ ctx[p].ret = 1
    /\ \E p \in Procs : ctx[p].pc = "inj_insert"

(* The set-pending, clear-pending and SGI pending clear and set registers *)
PendingReg(gicd_reg) ==
    \/ In(gicd_reg, GICD_ISPENDR, GICD_ISPENDRN)
    \/ In(gicd_reg, GICD_ICPENDR, GICD_ICPENDRN)
    \/ In(gicd_reg, GICD_CPENDSGIR, GICD_CPENDSGIRN)
    \/ In(gicd_reg, GICD_SPENDSGIR, GICD_SPENDSGIRN)

(* The access of the step was reported unhandled, with a message, and it   *)
(* changed no state and the domain lives                                   *)
Unhandled(p, message) ==
    /\ StateKept
    /\ ~crashed'
    /\ ctx'[p].pc = "idle"
    /\ ctx'[p].ret = 0
    /\ calls' = {<<"printk", message>>}

(* C18: a byte or word write to a set-pending, clear-pending, SGI pending   *)
(* clear or SGI pending set register, and a word read of GICD_ICPIDR2, are *)
(* reported unhandled; they change no rank, descriptor or queue state and  *)
(* do not end the domain.                                                  *)
C18_PendingUnhandled ==
    [][/\ \A reg \in MmioRegs, size \in ByteOrWord :
            (PendingReg(reg) /\ MmioWrite(0, reg, size, MmioVal(reg))) =>
                Unhandled(0, "vGICD: unhandled write")
       /\ MmioRead(0, GICD_ICPIDR2, DABT_WORD, 0) =>
                Unhandled(0, "vGICD: unhandled read")]_vars

(* A write was reported unhandled after lines had been enabled: the enable *)
(* bits and the enabled descriptors are as the enable left them.           *)
C18_Witness ==
    /\ calls = {<<"printk", "vGICD: unhandled write">>}
    /\ ctx[0].pc = "idle"
    /\ ctx[0].ret = 0
    /\ ~crashed
    /\ rank[Priv(0)].ienable = MmioWord
    /\ GIC_IRQ_GUEST_ENABLED \in pending[<<0, 31>>].status

----------------------------------------------------------------------------
(* The frame of the enable registers *)

(* The descriptors of the lines the enable or disable transition of        *)
(* processor p has yet to handle                                           *)
MaskDescs(p) == {irq_to_pending(ctx[p].v, i + 32 * ctx[p].n) : i \in ctx[p].mask}

(* The step leaves descriptor d, its place in the queues and its backing   *)
(* physical interrupt alone                                                *)
LineKept(d) ==
    /\ pending'[d] = pending[d]
    /\ \A w \in Vcpus :
          (\E i \in 1..Len(inflight_irqs'[w]) : inflight_irqs'[w][i] = d) <=> LinkedAt(w, d)
    /\ \A w \in Vcpus :
          irq_to_pending(w, d[2]) = d => (d[2] \in lr_pending'[w] <=> d[2] \in lr_pending[w])
    /\ d[2] \in hw_enabled' <=> d[2] \in hw_enabled

(* C19: a word write of W to a set-enable register whose bitmap is E leaves *)
(* E OR W there and starts the enable transition for exactly the bits      *)
(* W AND NOT E; a write of W to a clear-enable register leaves E AND NOT W *)
(* and starts the disable transition for exactly W AND E.  The write and   *)
(* every step of the transition leave alone the descriptor, the queue      *)
(* linkage and the backing physical interrupt of every line outside those  *)
(* bits; the transition handles the bits one by one, setting or clearing   *)
(* the descriptor's enabled bit, and returns when none is left.            *)
C19_EnableFrame ==
    [][/\ \A w \in EnableWrites :
            LET set == In(w[1], GICD_ISENABLER, GICD_ISENABLERN)
                clear == In(w[1], GICD_ICENABLER, GICD_ICENABLERN)
                offset == IF set THEN w[1] - GICD_ISENABLER ELSE w[1] - GICD_ICENABLER
                rk == vgic_rank_offset(0, 1, offset, DABT_WORD)
                E == rank[rk].ienable
                W == w[3]
            IN ((set \/ clear) /\ rk # NULL /\ MmioWrite(0, w[1], w[2], W)) =>
                  /\ rank'[rk].ienable = IF set THEN E \cup W ELSE E \ W
                  /\ ctx'[0].op = IF set THEN "enable" ELSE "disable"
                  /\ ctx'[0].mask = IF set THEN W \ E ELSE W \cap E
                  /\ ctx'[0].n = offset \div 4
                  /\ \A d \in DescIds : LineKept(d)
       /\ \A p \in Procs :
            (ctx[p].op \in {"enable", "disable"} /\ ctx'[p] # ctx[p]) =>
                  /\ \A d \in DescIds \ MaskDescs(p) : LineKept(d)
                  /\ ctx'[p].pc = "idle" <=> ctx[p].mask = {}
                  /\ ctx'[p].pc # "idle" =>
                        /\ ctx'[p].mask \subseteq ctx[p].mask
                        /\ \A i \in ctx[p].mask \ ctx'[p].mask :
                              /\ i = Min(ctx[p].mask)
                              /\ GIC_IRQ_GUEST_ENABLED
                                     \in pending'[irq_to_pending(ctx[p].v, i + 32 * ctx[p].n)].status
                                  <=> ctx[p].op = "enable"]_vars

(* Lines 1 and 2 were written to set-enable with line 1 enabled already:   *)
(* the enable transition is about to run for line 2 alone.                 *)
C19_Witness ==
    /\ ctx[0].pc = "en_loop"
    /\ ctx[0].op = "enable"
    /\ ctx[0].mask = {2}
    /\ rank[Priv(0)].ienable = {1, 2}
    /\ GIC_IRQ_GUEST_ENABLED \in pending[<<0, 1>>].status
    /\ GIC_IRQ_GUEST_ENABLED \notin pending[<<0, 2>>].status

----------------------------------------------------------------------------
(* Locking *)

(* C20: every step that reads or writes a field of a rank is taken by a     *)
(* processor that holds that rank's lock, the priority snapshot of an      *)
(* injection as much as the store of a register write.                     *)
C20_RankAccessLocked ==
    [][\A p \in Procs :
          (ctx'[p] # ctx[p] /\ RankAccess(p) # NULL) =>
              rlock[RankAccess(p)] = p]_vars

----------------------------------------------------------------------------
(* Locking *)

(* The next step of processor p runs under the list lock of the vCPU it    *)
(* works on: p holds v->arch.vgic.lock, or the step is one that takes and  *)
(* releases it (the else branch of vgic_enable_irqs,                       *)
(* gic_remove_from_queues).                                                *)
UnderListLock(p) ==
    \/ vlock[ctx[p].v] = p
    \/ ctx[p].pc \in {"en_raise", "dis_remove"}

(* The status bits or the inflight linkage of some descriptor change *)
DescriptorMutated ==
    \E d \in DescIds :
        \/ pending'[d].status # pending[d].status
        \/ pending'[d].inflight # pending[d].inflight
        \/ \E v \in Vcpus : LinkedAt(v, d) # LinkedAt(v, d)'

(* C21: every step of an operation that changes a descriptor's status bits *)
(* or its inflight linkage runs under the list lock of the vCPU the        *)
(* operation works on, the set and the clear of the enabled bit in the     *)
(* enable and disable transitions included.                                *)
C21_StatusUnderListLock ==
    [][\A p \in Procs :
          (ctx'[p] # ctx[p] /\ DescriptorMutated) => UnderListLock(p)]_vars

(* Processor p holds the lock of some rank, of some backing interrupt *)
HoldsRankLock(p) == \E id \in RankIds : rlock[id] = p
HoldsDescLock(p) == \E irq \in Backed : dlock[irq] = p

(* The next step of processor p takes a list lock; a rank lock (a trapped  *)
(* register write takes it first thing)                                    *)
AcquiresListLock(p) == ctx[p].pc \in {"inj_lock", "en_raise", "dis_remove"}
AcquiresRankLock(p) == ctx[p].pc = "idle"

LockOrder ==
    \A p \in Procs :
        /\ HoldsRankLock(p) => ~AcquiresListLock(p)
        /\ HoldsDescLock(p) => ~AcquiresListLock(p) /\ ~AcquiresRankLock(p)

(* C22: no processor is about to take a list lock while it holds a rank    *)
(* lock, nor a rank or list lock while it holds the lock of a backing      *)
(* physical interrupt; and the register writes, transitions, SGI           *)
(* dispatches and injections that two processors run concurrently all      *)
(* come to their end.                                                      *)
C22_LockOrderTerminates ==
    /\ []LockOrder
    /\ \A p \in Procs : (ctx[p].pc # "idle") ~> (ctx[p].pc = "idle")

(* vCPU 0 is about to take its list lock for the raise of line 32, which   *)
(* processor 1 holds for an injection, while no rank lock is held.         *)
C22_Witness ==
    /\ ctx[0].pc = "en_raise"
    /\ vlock[0] = 1
    /\ ctx[1].pc \in {"inj_check", "inj_insert"}
    /\ \A p \in Procs : ~HoldsRankLock(p)

----------------------------------------------------------------------------
(* The priority snapshot *)

(* The priority byte of line irq in its rank *)
RankPriority(v, irq) ==
    ByteVal(vgic_byte_read(
        rank[vgic_rank_irq(v, irq)].ipriority[REG_RANK_INDEX(8, irq, DABT_WORD)], 0, irq % 4))

(* C23: a step leaves the priority of every descriptor that stays in an    *)
(* inflight list as it is, and the entries that stay in the order they     *)
(* were in, be the step a write to the priority registers or an injection  *)
(* of a line that is inflight already; a descriptor that a step links into *)
(* a list has the priority its rank holds for the line at that step.       *)
C23_PrioritySnapshot ==
    [][\A v \in Vcpus :
          /\ \A d \in DescIds :
                /\ (LinkedAt(v, d) /\ LinkedAt(v, d)') =>
                        pending'[d].priority = pending[d].priority
                /\ (~LinkedAt(v, d) /\ LinkedAt(v, d)') =>
                        pending'[d].priority = RankPriority(v, d[2])
          /\ SelectSeq(inflight_irqs[v], LAMBDA e : LinkedAt(v, e)')
                 = SelectSeq(inflight_irqs'[v], LAMBDA e : LinkedAt(v, e))]_vars

(* Line 1 was injected with priority 0x10, its priority register was       *)
(* written to 0xC0 and the line was injected again: the descriptor is      *)
(* inflight with priority 0x10 still.                                      *)
C23_Witness ==
    /\ LinkedAt(0, <<0, 1>>)
    /\ <<"gic_raise_inflight_irq", 0, 1>> \in calls
    /\ Prio(<<0, 1>>) = 16
    /\ RankPriority(0, 1) = 192
    /\ Len(inflight_irqs[0]) > 1

----------------------------------------------------------------------------
(* The event-channel line *)

(* The descriptor of the event-channel line of vCPU v; the line is in v's  *)
(* inflight list once, and the physical interface has it queued for a list *)
(* register or in one.                                                     *)
EvtchnDesc(v) == irq_to_pending(v, evtchn_irq)

EvtchnRaised(v) ==
    /\ LinkedAt(v, EvtchnDesc(v))
    /\ Cardinality(Links(EvtchnDesc(v))) = 1
    /\ GIC_IRQ_GUEST_ENABLED \in pending[EvtchnDesc(v)].status
    /\ \/ evtchn_irq \in lr_pending[v]
       \/ GIC_IRQ_GUEST_VISIBLE \in pending[EvtchnDesc(v)].status

(* vCPU p is in the injection that its enable write forces *)
EvtchnForcing(p) == ctx[p].op = "enable" /\ ctx[p].pc \in {"inj_lock", "inj_check", "inj_insert"}

----------------------------------------------------------------------------
(* The enable bitmap and the descriptors *)

(* The rank and the bit of the enable bitmap that stand for descriptor d *)
EnableRank(d) == IF d[1] = DOM THEN Shared((d[2] - 32) \div 32) ELSE Priv(d[1])
EnableBitOf(d) == d[2] % 32

(* No set-enable or clear-enable write is in progress *)
NoEnableWrite == \A p \in Procs : ctx[p].op \notin {"enable", "disable"}

(* C25: whenever no set-enable or clear-enable write is in progress, the   *)
(* bit of every line in its rank's enable bitmap equals the enabled status *)
(* bit of the line's descriptor, also after set-enable and clear-enable    *)
(* writes to one shared line that two vCPUs issued concurrently.           *)
C25_EnableBitsAgree ==
    NoEnableWrite =>
        \A d \in DescIds :
            EnableBitOf(d) \in rank[EnableRank(d)].ienable
                <=> GIC_IRQ_GUEST_ENABLED \in pending[d].status

----------------------------------------------------------------------------
(* The descriptor tables *)

(* C26: every line whose descriptor a turn of the enable or of the disable *)
(* transition touches has a descriptor: its id is below 32, or its index   *)
(* among the shared lines is below the domain's count of shared lines,     *)
(* whatever value was written to the enable registers of an existing rank, *)
(* the last one of a domain whose count does not fill it included.         *)
C26_DescriptorsInTable ==
    [][\A p \in Procs :
          (ctx[p].pc \in {"en_loop", "dis_loop"} /\ ctx[p].mask # {} /\ ctx'[p] # ctx[p]) =>
              \/ Min(ctx[p].mask) + 32 * ctx[p].n < 32
              \/ Min(ctx[p].mask) + 32 * ctx[p].n - 32 < nr_lines]_vars

====
